---- MODULE Spec2Model ----
(***************************************************************************)
(* Ivy: supplier order pipeline (order items route, order page) and the    *)
(* inventory sync stream.                                                  *)
(*                                                                         *)
(* Money is counted in cents; every amount of the model is a multiple of   *)
(* 5 cents, so that "x * 1.2" is the exact integer (x * 12) \div 10.       *)
(* A nullable or optional value is <<>> (null / undefined) or <<v>>.       *)
(***************************************************************************)
EXTENDS Integers, Sequences, FiniteSets, TLC

VARIABLES
    orders,     \* supplier_orders: order id -> row
    items,      \* supplier_order_items: item id -> row (domain = stored rows)
    cost,       \* product_variants.cost: variant id -> <<>> or <<cents>>
    mfConfigured, \* metafield_config has an active row for the shop
    reqs,       \* concurrent requests in flight on one order (SpecRace)
    sync,       \* the sync run: position in the batch loops and its log
    rules,      \* price rules page: the rule shown and its displayed total
    stats,      \* inventory stats route: the rows read and the response
    metafields, \* fetchVariantMetafields: its arguments, the answer, its result
    http        \* the request last handled by a route and its response

vars == <<orders, items, cost, mfConfigured, reqs, sync, rules, stats,
          metafields, http>>

----------------------------------------------------------------------------
(* Bounds *)

\* item ids (rows the item table can hold)
MaxItems == 3
\* rows the item table holds under Spec
MaxRows == 2
\* largest quantity of one entry of an Add items request
MaxQty == 3

----------------------------------------------------------------------------
(* Domains *)

Orders == {"o1", "o2"}
Variants == {"v1", "v2"}
ItemIds == 1..MaxItems
Null == <<>>
Some(v) == <<v>>

\* the shop each order row belongs to (supplier_orders.shop_id)
ShopOf == [o \in Orders |-> IF o = "o1" THEN "s1" ELSE "s2"]

\* no sync run in progress
NoSync == [phase |-> "idle"]

Optional(S) == {Null} \cup {Some(v) : v \in S}

\* unit prices an Update item request supplies, in cents
PriceInputs == {0, 500}
\* quantities an Update item request supplies
QtyInputs == {0, 2}

\* SupplierOrder.status as the order page declares it
DeclaredStatuses == {"draft", "requested", "produced", "completed"}

----------------------------------------------------------------------------
(* JavaScript helpers *)

\* x || 0 on a nullable number
OrZero(x) == IF x = Null THEN 0 ELSE x[1]

\* a || b on numbers, a possibly undefined: a is falsy when undefined or 0
OrElse(a, b) == IF a = Null \/ a[1] = 0 THEN b ELSE a[1]

\* the sum of f[i] over the ids i of S
RECURSIVE SumUpTo(_, _, _)
SumUpTo(n, S, f) ==
    IF n = 0 THEN 0
    ELSE (IF n \in S THEN f[n] ELSE 0) + SumUpTo(n - 1, S, f)

SumOver(S, f) == SumUpTo(MaxItems, S, f)

\* faulty variant of Vat: the VAT amount alone (totalHt * 0.2)
VatAmountOnly(x) == (x * 2) \div 10

\* totalHt * 1.2
Vat(x) == (x * 12) \div 10

\* f overridden by g
Merge(f, g) ==
    [k \in DOMAIN f \cup DOMAIN g |-> IF k \in DOMAIN g THEN g[k] ELSE f[k]]

\* Strings that the code converts are written as sequences of characters.
LowerCase ==
    <<"a", "b", "c", "d", "e", "f", "g", "h", "i", "j", "k", "l", "m",
      "n", "o", "p", "q", "r", "s", "t", "u", "v", "w", "x", "y", "z">>

UpperCase ==
    <<"A", "B", "C", "D", "E", "F", "G", "H", "I", "J", "K", "L", "M",
      "N", "O", "P", "Q", "R", "S", "T", "U", "V", "W", "X", "Y", "Z">>

----------------------------------------------------------------------------
(* fetchVariantMetafields *)

toLowerChar(c) ==
    IF \E k \in DOMAIN UpperCase : UpperCase[k] = c
    THEN LowerCase[CHOOSE k \in DOMAIN UpperCase : UpperCase[k] = c]
    ELSE c

\* str.toLowerCase(), on a string written as a sequence of characters
toLowerCase(str) == [i \in DOMAIN str |-> toLowerChar(str[i])]

\* `${namespace}.${key}`
FullKey(namespace, key) == namespace \o <<".">> \o key

GidPrefix == "gid://shopify/ProductVariant/"

\* `gid://shopify/ProductVariant/${id}`
Gid(id) == <<GidPrefix>> \o id

\* node.id.replace('gid://shopify/ProductVariant/', '')
ShopifyIdOf(gid) ==
    IF \E i \in DOMAIN gid : gid[i] = GidPrefix
    THEN LET at == CHOOSE i \in DOMAIN gid :
                     /\ gid[i] = GidPrefix
                     /\ \A j \in 1..(i - 1) : gid[j] # GidPrefix
         IN  SubSeq(gid, 1, at - 1) \o SubSeq(gid, at + 1, Len(gid))
    ELSE gid

MetafieldConfig(namespace, key, display_name) ==
    [namespace |-> namespace, key |-> key, display_name |-> display_name]

Metafield(namespace, key, value) ==
    [namespace |-> namespace, key |-> key, value |-> value]

\* faulty variant of ConfigFor: the keys are compared as they are spelled
ConfigForExact(metafieldConfigs, fullKeyLower) ==
    LET matching == { i \in DOMAIN metafieldConfigs :
                        FullKey(metafieldConfigs[i].namespace,
                                metafieldConfigs[i].key) = fullKeyLower }
    IN  IF matching = {} THEN Null
        ELSE Some(metafieldConfigs[
                 CHOOSE i \in matching : \A j \in matching : i >= j])

\* configuredKeysMap.get(fullKeyLower): the map is filled in the order of
\* the configurations under their lowercased `${namespace}.${key}`, so the
\* last configuration of a key is the one found.
ConfigFor(metafieldConfigs, fullKeyLower) ==
    LET matching == { i \in DOMAIN metafieldConfigs :
                        toLowerCase(FullKey(metafieldConfigs[i].namespace,
                                            metafieldConfigs[i].key))
                            = fullKeyLower }
    IN  IF matching = {} THEN Null
        ELSE Some(metafieldConfigs[
                 CHOOSE i \in matching : \A j \in matching : i >= j])

\* config.display_name || `${mf.namespace}.${mf.key}`
DisplayName(config, mf) ==
    IF config.display_name = <<>> THEN FullKey(mf.namespace, mf.key)
    ELSE config.display_name

\* The loop over the edges of one node: a metafield with a value whose
\* key is configured is stored under its display name.
RECURSIVE NodeMetafields(_, _, _)
NodeMetafields(edges, metafieldConfigs, kept) ==
    IF edges = <<>> THEN kept
    ELSE LET mf == Head(edges)
             config == ConfigFor(metafieldConfigs,
                           toLowerCase(FullKey(mf.namespace, mf.key)))
         IN  NodeMetafields(Tail(edges), metafieldConfigs,
                 IF mf.value # <<>> /\ config # Null
                 THEN Merge(kept, DisplayName(config[1], mf) :> mf.value)
                 ELSE kept)

\* The loop over data.data?.nodes || []: a node without id is skipped.
RECURSIVE NodesResult(_, _, _)
NodesResult(nodes, metafieldConfigs, result) ==
    IF nodes = <<>> THEN result
    ELSE LET node == Head(nodes)
         IN  NodesResult(Tail(nodes), metafieldConfigs,
                 IF node = Null \/ node[1].id = Null THEN result
                 ELSE Merge(result,
                          ShopifyIdOf(node[1].id[1])
                              :> NodeMetafields(node[1].edges,
                                                metafieldConfigs, <<>>)))

\* What happens to the call: the shop row is found or not, the request
\* throws or answers, with an ok status or not, with errors or with nodes.
Answer(shopFound, throws, ok, errors, nodes) ==
    [shopFound |-> shopFound, throws |-> throws, ok |-> ok,
     errors |-> errors, nodes |-> nodes]

fetchVariantMetafields(metafieldConfigs, answer) ==
    IF ~answer.shopFound \/ answer.throws \/ ~answer.ok \/ answer.errors
    THEN <<>>
    ELSE NodesResult(answer.nodes, metafieldConfigs, <<>>)

\* A variant node of an answer, with the metafields of its edges.
VariantNode(id, edges) == Some([id |-> Some(Gid(id)), edges |-> edges])

\* product_variants.shopify_id of each variant
VariantShopifyId ==
    [v \in Variants |-> IF v = "v1" THEN <<"1">> ELSE <<"2">>]

\* The active rows of metafield_config of a shop that has any.
ShopConfigs(configured) ==
    IF configured THEN <<MetafieldConfig(<<"c">>, <<"k">>, <<"A">>)>>
    ELSE <<>>

\* The answer in which both variants carry metafield c.k with a value.
ValueAnswer(value) ==
    Answer(TRUE, FALSE, TRUE, FALSE,
           <<VariantNode(VariantShopifyId["v1"],
                         <<Metafield(<<"c">>, <<"k">>, value)>>),
             VariantNode(VariantShopifyId["v2"],
                         <<Metafield(<<"c">>, <<"k">>, value)>>)>>)

\* The ways the fetch fails: no shop row, a thrown exception, a status
\* that is not 2xx, GraphQL errors.
FailedAnswers ==
    { Answer(FALSE, FALSE, TRUE, FALSE, <<>>),
      Answer(TRUE, TRUE, TRUE, FALSE, <<>>),
      Answer(TRUE, FALSE, FALSE, FALSE, <<>>),
      Answer(TRUE, FALSE, TRUE, TRUE, <<>>) }

\* shopifyId ? (variantMetafieldsMap[shopifyId] || {}) : {}
RowMetafields(variantRef, variantMetafieldsMap) ==
    IF variantRef = Null THEN <<>>
    ELSE IF VariantShopifyId[variantRef[1]] \in DOMAIN variantMetafieldsMap
         THEN variantMetafieldsMap[VariantShopifyId[variantRef[1]]]
         ELSE <<>>

----------------------------------------------------------------------------
(* updateOrderTotals *)

\* the rows of supplier_order_items with order_id = orderId
ItemsOf(its, orderId) == {i \in DOMAIN its : its[i].order_id = orderId}

\* items.filter(is_validated).reduce(sum + line_total)
ValidatedSubtotal(its, orderId) ==
    SumOver({i \in ItemsOf(its, orderId) : its[i].is_validated},
            [i \in DOMAIN its |-> its[i].line_total])

\* faulty variant of WriteTotals: the balance adjustment is left out of total_ht
WriteTotalsNoBalance(ords, orderId, shopId, subtotal, balanceAdjustment) ==
    [o \in Orders |->
        IF o = orderId /\ ords[o].shop_id = shopId
        THEN [ords[o] EXCEPT !.subtotal = subtotal,
                             !.total_ht = subtotal,
                             !.total_ttc = Vat(subtotal)]
        ELSE ords[o]]

\* update({subtotal, total_ht, total_ttc}).eq('id', orderId).eq('shop_id', shopId)
WriteTotals(ords, orderId, shopId, subtotal, balanceAdjustment) ==
    LET totalHt  == subtotal + balanceAdjustment
        totalTtc == Vat(totalHt)
    IN  [o \in Orders |->
            IF o = orderId /\ ords[o].shop_id = shopId
            THEN [ords[o] EXCEPT !.subtotal = subtotal,
                                 !.total_ht = totalHt,
                                 !.total_ttc = totalTtc]
            ELSE ords[o]]

\* supplier_orders after updateOrderTotals(orderId, shopId) run without
\* interruption over the item table its
UpdateOrderTotals(ords, its, orderId, shopId) ==
    WriteTotals(ords, orderId, shopId, ValidatedSubtotal(its, orderId),
                ords[orderId].balance_adjustment)

----------------------------------------------------------------------------
(* POST: Add items *)

\* variantCostMap[item.variant_id] || 0
UnitPriceOf(costs, variantRef) ==
    IF variantRef = Null THEN 0 ELSE OrZero(costs[variantRef[1]])

\* faulty variant of EntryQuantity: one row per entry, whatever its quantity
EntryQuantityOne(entry) == 1

\* item.quantity || 1
EntryQuantity(entry) == IF entry.quantity = 0 THEN 1 ELSE entry.quantity

\* metafields attached to a row: those fetched for its variant when the
\* shop has configurations, or {}; the fetch is answered with the value
\* "red" or fails
MetafieldsOf(variantRef, configured, fetchOk) ==
    RowMetafields(variantRef,
        IF configured
        THEN fetchVariantMetafields(ShopConfigs(TRUE),
                 IF fetchOk THEN ValueAnswer(<<"r", "e", "d">>)
                 ELSE Answer(TRUE, FALSE, FALSE, FALSE, <<>>))
        ELSE <<>>)

\* one row per unit of one entry
UnitRow(orderId, entry, costs, configured, fetchOk) ==
    [order_id     |-> orderId,
     variant_id   |-> entry.variant_id,
     quantity     |-> 1,
     unit_price   |-> UnitPriceOf(costs, entry.variant_id),
     line_total   |-> UnitPriceOf(costs, entry.variant_id),
     is_validated |-> FALSE,
     validated_at |-> "null",
     is_printed   |-> FALSE,
     printed_at   |-> "null",
     metafields   |-> MetafieldsOf(entry.variant_id, configured, fetchOk)]

\* itemsToInsert: EntryQuantity(entry) rows per entry, in request order
RECURSIVE ItemsToInsert(_, _, _, _, _)
ItemsToInsert(orderId, entries, costs, configured, fetchOk) ==
    IF entries = <<>> THEN <<>>
    ELSE [k \in 1..EntryQuantity(Head(entries)) |->
             UnitRow(orderId, Head(entries), costs, configured, fetchOk)]
         \o ItemsToInsert(orderId, Tail(entries), costs, configured, fetchOk)

\* the number of rows of itemsToInsert
RowCount(entries) ==
    SumUpTo(Len(entries), 1..Len(entries),
            [k \in 1..Len(entries) |-> EntryQuantity(entries[k])])

\* the item table after inserting rows: the k-th row takes the k-th free id
InsertRows(its, rows) ==
    LET free == ItemIds \ DOMAIN its
        rank == [i \in free |-> Cardinality({j \in free : j <= i})]
        new  == {i \in free : rank[i] <= Len(rows)}
    IN  [i \in DOMAIN its \cup new |->
            IF i \in DOMAIN its THEN its[i] ELSE rows[rank[i]]]

\* the status an Add items request writes on a draft order
AddItemsStatus == "in_progress"

\* update({status}).eq('id', orderId).eq('status', 'draft'); the result of the
\* update is not inspected: the store applies it, or rejects the value
MarkInProgress(ords, orderId, applied) ==
    [o \in Orders |->
        IF o = orderId /\ ords[o].status = "draft" /\ applied
        THEN [ords[o] EXCEPT !.status = AddItemsStatus]
        ELSE ords[o]]

\* request bodies of one or two entries over the variants vs
AddItemRequests(vs) ==
    LET Entry == [variant_id : {Some(v) : v \in vs}, quantity : 0..MaxQty]
    IN  {<<e>> : e \in Entry} \cup {<<e, f>> : e \in Entry, f \in Entry}

AddItems(orderId, shopId, entries, fetchOk, applied) ==
    /\ Cardinality(DOMAIN items) + RowCount(entries) <= MaxItems
    /\ items' = InsertRows(items,
                    ItemsToInsert(orderId, entries, cost, mfConfigured, fetchOk))
    /\ orders' = MarkInProgress(UpdateOrderTotals(orders, items', orderId, shopId),
                                orderId, applied)
    /\ UNCHANGED <<cost, mfConfigured, reqs, sync, rules, stats, metafields, http>>

----------------------------------------------------------------------------
(* PUT: Update item *)

\* faulty variant of UpdatedRow: printed_at is stamped once and never cleared
UpdatedRowStampKept(row, is_validated, is_printed, quantity, unit_price) ==
    LET byQuantity ==
            IF quantity # Null
            THEN OrElse(unit_price, row.unit_price) * quantity[1]
            ELSE row.line_total
        lineTotal ==
            IF unit_price # Null
            THEN unit_price[1] * OrElse(quantity, row.quantity)
            ELSE byQuantity
    IN  [order_id     |-> row.order_id,
         variant_id   |-> row.variant_id,
         quantity     |-> IF quantity # Null THEN quantity[1] ELSE row.quantity,
         unit_price   |-> IF unit_price # Null THEN unit_price[1] ELSE row.unit_price,
         line_total   |-> lineTotal,
         is_validated |-> IF is_validated # Null THEN is_validated[1]
                          ELSE row.is_validated,
         validated_at |-> IF is_validated # Null
                          THEN (IF is_validated[1] THEN "stamp" ELSE "null")
                          ELSE row.validated_at,
         is_printed   |-> IF is_printed # Null THEN is_printed[1] ELSE row.is_printed,
         printed_at   |-> IF is_printed # Null /\ is_printed[1] THEN "stamp"
                          ELSE row.printed_at,
         metafields   |-> row.metafields]

\* updateData applied to the row; item is the row as read back by id
UpdatedRow(row, is_validated, is_printed, quantity, unit_price) ==
    LET byQuantity ==
            IF quantity # Null
            THEN OrElse(unit_price, row.unit_price) * quantity[1]
            ELSE row.line_total
        lineTotal ==
            IF unit_price # Null
            THEN unit_price[1] * OrElse(quantity, row.quantity)
            ELSE byQuantity
    IN  [order_id     |-> row.order_id,
         variant_id   |-> row.variant_id,
         quantity     |-> IF quantity # Null THEN quantity[1] ELSE row.quantity,
         unit_price   |-> IF unit_price # Null THEN unit_price[1] ELSE row.unit_price,
         line_total   |-> lineTotal,
         is_validated |-> IF is_validated # Null THEN is_validated[1]
                          ELSE row.is_validated,
         validated_at |-> IF is_validated # Null
                          THEN (IF is_validated[1] THEN "stamp" ELSE "null")
                          ELSE row.validated_at,
         is_printed   |-> IF is_printed # Null THEN is_printed[1] ELSE row.is_printed,
         printed_at   |-> IF is_printed # Null
                          THEN (IF is_printed[1] THEN "stamp" ELSE "null")
                          ELSE row.printed_at,
         metafields   |-> row.metafields]

\* faulty variant of TouchesTotals: a validation toggle does not recompute the totals
TouchesTotalsNoValidation(is_validated, quantity, unit_price) ==
    quantity # Null \/ unit_price # Null

\* quantity !== undefined || unit_price !== undefined || is_validated !== undefined
TouchesTotals(is_validated, quantity, unit_price) ==
    quantity # Null \/ unit_price # Null \/ is_validated # Null

UpdateItem(orderId, shopId, itemId, is_validated, is_printed, quantity, unit_price) ==
    IF itemId \notin DOMAIN items
    THEN \* .single() finds no row: 500, nothing written
         UNCHANGED vars
    ELSE /\ items' = [items EXCEPT ![itemId] =
                         UpdatedRow(@, is_validated, is_printed, quantity, unit_price)]
         /\ orders' = IF TouchesTotals(is_validated, quantity, unit_price)
                      THEN UpdateOrderTotals(orders, items', orderId, shopId)
                      ELSE orders
         /\ UNCHANGED <<cost, mfConfigured, reqs, sync, rules, stats, metafields, http>>

----------------------------------------------------------------------------
(* DELETE: Delete item *)

\* delete().eq('id', itemId)
DeleteRow(its, itemId) == [i \in DOMAIN its \ {itemId} |-> its[i]]

DeleteItem(orderId, shopId, itemId) ==
    /\ items' = DeleteRow(items, itemId)
    /\ orders' = UpdateOrderTotals(orders, items', orderId, shopId)
    /\ UNCHANGED <<cost, mfConfigured, reqs, sync, rules, stats, metafields, http>>

----------------------------------------------------------------------------
(* PUT action = recalculate_prices *)

\* faulty variant of RecalcRow: the line total is computed from the price read
\* before the update
RecalcRowStalePrice(row, costs) ==
    [row EXCEPT !.unit_price = UnitPriceOf(costs, row.variant_id),
                !.line_total = row.unit_price * row.quantity]

\* unit_price: cost, line_total: cost * item.quantity
RecalcRow(row, costs) ==
    [row EXCEPT !.unit_price = UnitPriceOf(costs, row.variant_id),
                !.line_total = UnitPriceOf(costs, row.variant_id) * row.quantity]

\* faulty variant of RecalcItems: only the validated rows are repriced
RecalcItemsValidated(its, costs, orderId) ==
    [i \in DOMAIN its |->
        IF its[i].order_id = orderId /\ its[i].is_validated
        THEN RecalcRow(its[i], costs) ELSE its[i]]

\* every row of the order repriced, the other rows untouched
RecalcItems(its, costs, orderId) ==
    [i \in DOMAIN its |->
        IF its[i].order_id = orderId THEN RecalcRow(its[i], costs) ELSE its[i]]

\* the two tables after the request; an order without rows: 'No items to update'
RecalcResult(ords, its, costs, orderId, shopId) ==
    IF ItemsOf(its, orderId) = {}
    THEN [orders |-> ords, items |-> its]
    ELSE [orders |-> UpdateOrderTotals(ords, RecalcItems(its, costs, orderId),
                                       orderId, shopId),
          items  |-> RecalcItems(its, costs, orderId)]

RecalculatePrices(orderId, shopId) ==
    /\ items' = RecalcResult(orders, items, cost, orderId, shopId).items
    /\ orders' = RecalcResult(orders, items, cost, orderId, shopId).orders
    /\ UNCHANGED <<cost, mfConfigured, reqs, sync, rules, stats, metafields, http>>

----------------------------------------------------------------------------
(* PUT action = refresh_metafields *)

\* faulty variant of RefreshItems: a failed fetch leaves the rows alone
RefreshItemsKept(its, orderId, metafieldConfigs, answer) ==
    IF ItemsOf(its, orderId) = {} \/ metafieldConfigs = <<>>
       \/ answer \in FailedAnswers
    THEN its
    ELSE [i \in DOMAIN its |->
            IF its[i].order_id = orderId /\ its[i].variant_id # Null
            THEN [its[i] EXCEPT !.metafields =
                     RowMetafields(its[i].variant_id,
                         fetchVariantMetafields(metafieldConfigs, answer))]
            ELSE its[i]]

\* The item table after the request: nothing is written for an order
\* without rows or a shop without configurations; otherwise every row of
\* the order that names a variant takes the metafields fetched for it, {}
\* when the result holds none.
RefreshItems(its, orderId, metafieldConfigs, answer) ==
    IF ItemsOf(its, orderId) = {} \/ metafieldConfigs = <<>>
    THEN its
    ELSE [i \in DOMAIN its |->
            IF its[i].order_id = orderId /\ its[i].variant_id # Null
            THEN [its[i] EXCEPT !.metafields =
                     RowMetafields(its[i].variant_id,
                         fetchVariantMetafields(metafieldConfigs, answer))]
            ELSE its[i]]

RefreshMetafields(orderId, shopId, answer) ==
    /\ items' = RefreshItems(items, orderId, ShopConfigs(mfConfigured), answer)
    /\ UNCHANGED <<orders, cost, mfConfigured, reqs, sync, rules, stats,
                   metafields, http>>

----------------
(* Sync run: upsert of product_variants writes the cost fetched for a variant *)

UpsertVariantCost(v, c) ==
    /\ cost[v] # Some(c)
    /\ cost' = [cost EXCEPT ![v] = Some(c)]
    /\ UNCHANGED <<orders, items, mfConfigured, reqs, sync, rules, stats, metafields, http>>

----------------------------------------------------------------------------------------------------------------------------------------
(* Order page: status actions *)

Statuses == DeclaredStatuses \cup {AddItemsStatus}

\* faulty variant of StatusActions: a requested order can be terminated at once
StatusActionsSkip(status, itemCount) ==
    CASE status = "draft"     -> IF itemCount = 0 THEN {} ELSE {"requested"}
      [] status = "requested" -> {"draft", "produced", "completed"}
      [] status = "produced"  -> {"requested", "completed"}
      [] OTHER                -> {}

\* the newStatus values of the buttons the page renders for an order
StatusActions(status, itemCount) ==
    CASE status = "draft"     -> IF itemCount = 0 THEN {} ELSE {"requested"}
      [] status = "requested" -> {"draft", "produced"}
      [] status = "produced"  -> {"requested", "completed"}
      [] OTHER                -> {}

\* PUT /api/suppliers/orders {id, status}: the order row takes the status
StoreStatus(ords, orderId, newStatus) ==
    [ords EXCEPT ![orderId].status = newStatus]

ChangeStatus(orderId, newStatus) ==
    /\ newStatus \in StatusActions(orders[orderId].status,
                                   Cardinality(ItemsOf(items, orderId)))
    /\ orders' = StoreStatus(orders, orderId, newStatus)
    /\ UNCHANGED <<items, cost, mfConfigured, reqs, sync, rules, stats, metafields, http>>

----------------------------------------------------------------------------
(* Specification Spec: item operations, one request at a time, each naming  *)
(* the order's own shop and, when the item exists, an item of the order.    *)
(* The store applies the status write of Add items.                         *)

NewOrder(o, balance) ==
    [shop_id |-> ShopOf[o], status |-> "draft", balance_adjustment |-> balance,
     subtotal |-> 0, total_ht |-> 0, total_ttc |-> 0]

\* balance_adjustment of each order, as saved from the order page
BalanceOf == [o \in Orders |-> IF o = "o1" THEN -500 ELSE 0]

Init ==
    /\ orders = [o \in Orders |-> NewOrder(o, BalanceOf[o])]
    /\ items = <<>>
    /\ cost = [v \in Variants |-> Null]
    /\ mfConfigured = FALSE
    /\ reqs = <<>>
    /\ metafields = Null
    /\ http = Null
    /\ rules = Null
    /\ stats = Null
    /\ sync = NoSync

\* itemId names no row, or a row of the order
OwnItem(orderId, itemId) ==
    itemId \in DOMAIN items => items[itemId].order_id = orderId

\* the bodies of the Update item requests issued: a validation toggle, a
\* quantity and / or unit price, or all three
UpdateRequests ==
    {[is_validated |-> Some(b), is_printed |-> Null, quantity |-> Null,
      unit_price |-> Null] : b \in BOOLEAN}
    \cup {[is_validated |-> Null, is_printed |-> Null, quantity |-> q,
           unit_price |-> p] :
              q \in Optional(QtyInputs), p \in Optional(PriceInputs)}
    \cup {[is_validated |-> Some(TRUE), is_printed |-> Null, quantity |-> Some(2),
           unit_price |-> Some(500)]}

DoAddItems ==
    \E o \in Orders, entries \in AddItemRequests({"v1"}) :
        /\ Cardinality(DOMAIN items) + RowCount(entries) <= MaxRows
        /\ AddItems(o, ShopOf[o], entries, FALSE, TRUE)

DoUpdateItem ==
    \E o \in Orders, i \in ItemIds :
        /\ OwnItem(o, i)
        /\ \E r \in UpdateRequests :
               UpdateItem(o, ShopOf[o], i, r.is_validated, r.is_printed,
                          r.quantity, r.unit_price)

DoDeleteItem ==
    \E o \in Orders, i \in ItemIds :
        /\ OwnItem(o, i)
        /\ DeleteItem(o, ShopOf[o], i)

DoRecalculatePrices ==
    \E o \in Orders : RecalculatePrices(o, ShopOf[o])

DoUpsertVariantCost ==
    UpsertVariantCost("v1", 750)

Next ==
    \/ DoAddItems
    \/ DoUpdateItem
    \/ DoDeleteItem
    \/ DoRecalculatePrices
    \/ DoUpsertVariantCost

Spec == Init /\ [][Next]_vars

----------------------------------------------------------------------------
(* Specification SpecAdd: Add items requests over both variants, whose      *)
(* costs a sync run rewrites between the requests                            *)

AddUpsertCosts == {750, 1000}

AddAddItems ==
    \E o \in Orders, entries \in AddItemRequests(Variants) :
        /\ Cardinality(DOMAIN items) + RowCount(entries) <= MaxItems
        /\ AddItems(o, ShopOf[o], entries, FALSE, TRUE)

AddUpsertVariantCost ==
    \E v \in Variants, c \in AddUpsertCosts : UpsertVariantCost(v, c)

NextAdd ==
    \/ AddAddItems
    \/ AddUpsertVariantCost

SpecAdd == Init /\ [][NextAdd]_vars

----------------------------------------------------------------------------
(* Specification SpecStatus: the order page's status actions, with Add      *)
(* items and Delete item requests; the store applies or rejects the status  *)
(* write of Add items                                                        *)

StatusAddItems ==
    \E o \in Orders, applied \in BOOLEAN :
        AddItems(o, ShopOf[o], <<[variant_id |-> Some("v1"), quantity |-> 1]>>,
                 FALSE, applied)

StatusDeleteItem ==
    \E o \in Orders, i \in DOMAIN items :
        /\ OwnItem(o, i)
        /\ DeleteItem(o, ShopOf[o], i)

StatusChangeStatus ==
    \E o \in Orders, s \in Statuses : ChangeStatus(o, s)

NextStatus ==
    \/ StatusAddItems
    \/ StatusDeleteItem
    \/ StatusChangeStatus

SpecStatus == Init /\ [][NextStatus]_vars

----------------------------------------------------------------------------
(* Specification SpecTotals: validation toggles and deletions on an order   *)
(* whose rows were inserted at the costs 10.00, 15.00 and 99.00              *)

TotalsLineTotals == {1000, 1500, 9900}
TotalsBalances == {-500, 0, 500}

TotalsRow(price) ==
    [order_id |-> "o1", variant_id |-> Some("v1"), quantity |-> 1,
     unit_price |-> price, line_total |-> price, is_validated |-> FALSE,
     validated_at |-> "null", is_printed |-> FALSE, printed_at |-> "null",
     metafields |-> Null]

\* the state Add items leaves on an order of balance b: rows unvalidated
InitTotals ==
    /\ \E b \in TotalsBalances :
          orders = [o \in Orders |->
                       IF o = "o1"
                       THEN [NewOrder(o, b) EXCEPT !.status = AddItemsStatus,
                                                   !.total_ht = b,
                                                   !.total_ttc = (b * 12) \div 10]
                       ELSE NewOrder(o, 0)]
    /\ \E n \in 1..MaxItems, prices \in [1..MaxItems -> TotalsLineTotals] :
          items = [i \in 1..n |-> TotalsRow(prices[i])]
    /\ cost = [v \in Variants |-> Null]
    /\ mfConfigured = FALSE
    /\ reqs = <<>>
    /\ metafields = Null
    /\ http = Null
    /\ rules = Null
    /\ stats = Null
    /\ sync = NoSync

TotalsToggleValidation ==
    \E i \in DOMAIN items, b \in BOOLEAN :
        UpdateItem("o1", ShopOf["o1"], i, Some(b), Null, Null, Null)

TotalsDeleteItem ==
    \E i \in DOMAIN items : DeleteItem("o1", ShopOf["o1"], i)

NextTotals ==
    \/ TotalsToggleValidation
    \/ TotalsDeleteItem

SpecTotals == InitTotals /\ [][NextTotals]_vars

----------------------------------------------------------------------------
(* Specification SpecRace: the order page fires DELETE and validation PUT   *)
(* requests on order o1 without awaiting; the route handlers interleave at  *)
(* their awaits                                                             *)

\* requests the page fires in one behaviour
MaxRequests == 2

RaceOrder == "o1"

\* a request as the page sends it; subtotal and balance are the handler's
\* locals, written numbers the completed updateOrderTotals writes in order
RaceRequest(kind, itemId, value) ==
    [kind |-> kind, itemId |-> itemId, value |-> value, pc |-> "mutate",
     subtotal |-> 0, balance |-> 0, written |-> 0]

\* how many requests have written the order's totals
Writes(rs) == Cardinality({k \in 1..Len(rs) : rs[k].written > 0})

\* the state Add items and validation toggles leave: rows of cost 7.50,
\* validated or not, totals recomputed
InitRace ==
    /\ \E validated \in [1..MaxItems -> BOOLEAN] :
          /\ items = [i \in 1..MaxItems |->
                         [TotalsRow(750) EXCEPT !.is_validated = validated[i],
                                                !.validated_at =
                                                    IF validated[i] THEN "stamp"
                                                    ELSE "null"]]
          /\ orders = UpdateOrderTotals(
                          [o \in Orders |->
                              [NewOrder(o, BalanceOf[o])
                                  EXCEPT !.status = AddItemsStatus]],
                          items, RaceOrder, ShopOf[RaceOrder])
    /\ cost = [v \in Variants |-> Some(750)]
    /\ mfConfigured = FALSE
    /\ reqs = <<>>
    /\ metafields = Null
    /\ http = Null
    /\ rules = Null
    /\ stats = Null
    /\ sync = NoSync

\* deleteItem(item.id) for each unit of a group / toggleValidation: fetch
\* without waiting for the requests already sent
RaceSubmit ==
    /\ Len(reqs) < MaxRequests
    /\ \E i \in DOMAIN items :
          \/ reqs' = Append(reqs, RaceRequest("delete", i, FALSE))
          \/ \E b \in BOOLEAN :
                reqs' = Append(reqs, RaceRequest("validate", i, b))
    /\ UNCHANGED <<orders, items, cost, mfConfigured, sync, rules, stats, metafields, http>>

\* the handler's statement on supplier_order_items; a PUT on a row that is
\* gone answers 500 before updateOrderTotals
RaceMutate ==
    \E k \in 1..Len(reqs) :
        /\ reqs[k].pc = "mutate"
        /\ IF reqs[k].kind = "delete"
           THEN /\ items' = DeleteRow(items, reqs[k].itemId)
                /\ reqs' = [reqs EXCEPT ![k].pc = "items"]
           ELSE IF reqs[k].itemId \in DOMAIN items
           THEN /\ items' = [items EXCEPT ![reqs[k].itemId] =
                                UpdatedRow(@, Some(reqs[k].value), Null, Null, Null)]
                /\ reqs' = [reqs EXCEPT ![k].pc = "items"]
           ELSE /\ items' = items
                /\ reqs' = [reqs EXCEPT ![k].pc = "done"]
        /\ UNCHANGED <<orders, cost, mfConfigured, sync, rules, stats, metafields, http>>

\* updateOrderTotals: select line_total, is_validated of the order's rows
RaceReadItems ==
    \E k \in 1..Len(reqs) :
        /\ reqs[k].pc = "items"
        /\ reqs' = [reqs EXCEPT ![k].pc = "order",
                                ![k].subtotal = ValidatedSubtotal(items, RaceOrder)]
        /\ UNCHANGED <<orders, items, cost, mfConfigured, sync, rules, stats, metafields, http>>

\* updateOrderTotals: select balance_adjustment of the order
RaceReadOrder ==
    \E k \in 1..Len(reqs) :
        /\ reqs[k].pc = "order"
        /\ reqs' = [reqs EXCEPT ![k].pc = "write",
                                ![k].balance = orders[RaceOrder].balance_adjustment]
        /\ UNCHANGED <<orders, items, cost, mfConfigured, sync, rules, stats, metafields, http>>

\* updateOrderTotals: update of supplier_orders with the locals
RaceWrite ==
    \E k \in 1..Len(reqs) :
        /\ reqs[k].pc = "write"
        /\ orders' = WriteTotals(orders, RaceOrder, ShopOf[RaceOrder],
                                 reqs[k].subtotal, reqs[k].balance)
        /\ reqs' = [reqs EXCEPT ![k].pc = "done",
                                ![k].written = Writes(reqs) + 1]
        /\ UNCHANGED <<items, cost, mfConfigured, sync, rules, stats, metafields, http>>

NextRace ==
    \/ RaceSubmit
    \/ RaceMutate
    \/ RaceReadItems
    \/ RaceReadOrder
    \/ RaceWrite

SpecRace == InitRace /\ [][NextRace]_vars

----------------------------------------------------------------------------
(* The sync stream: GET of the sync route, one run                          *)

\* product pages of one run
MaxPages == 2

\* const maxRetries = 3
MaxRetries == 3

\* the platform's catalogue: product p1 holds variant v1, product p2 holds
\* variant v2; the inventory item of v1 is 1, that of v2 is 2
Products == {"p1", "p2"}
ProductOf == [v \in Variants |-> IF v = "v1" THEN "p1" ELSE "p2"]
InventoryItemOf == [v \in Variants |-> IF v = "v1" THEN 1 ELSE 2]
InventoryItems == {InventoryItemOf[v] : v \in Variants}
Locations == {"l1"}

\* the statuses the platform answers a batch request with
Responses == {200, 429, 500}

\* item.cost as the platform sends it: absent, empty, or a decimal string
CostStrings == {"0.00", "7.50", "10.00"}
CostFields == {Null, Some("")} \cup {Some(c) : c \in CostStrings}

\* level.available as the platform sends it
AvailableFields == {Null, Some(-3), Some(0), Some(5)}

\* parseFloat of a decimal string, in cents
ParseFloat(str) ==
    CASE str = "0.00"  -> 0
      [] str = "7.50"  -> 750
      [] str = "10.00" -> 1000

\* faulty variant of ParsedCost: parseInt, the cents are dropped
ParsedCostWhole(field) ==
    IF field = Null \/ field[1] = "" THEN 0
    ELSE (ParseFloat(field[1]) \div 100) * 100

\* item.cost ? parseFloat(item.cost) : 0
ParsedCost(field) ==
    IF field = Null \/ field[1] = "" THEN 0 ELSE ParseFloat(field[1])

\* level.available || 0
LevelQuantity(field) == IF field = Null THEN 0 ELSE field[1]

\* faulty variant of Delay: the wait doubles from 500 ms
DelayDoubling(retries) == 500 * (2 ^ retries)

\* retries === 0 ? 500 : 1000 * Math.pow(2, retries)
Delay(retries) == IF retries = 0 THEN 500 ELSE 1000 * (2 ^ retries)

\* the elements of a set of numbers in increasing order
RECURSIVE SortedSeq(_)
SortedSeq(S) ==
    IF S = {} THEN <<>>
    ELSE LET least == CHOOSE x \in S : \A y \in S : x <= y
         IN  <<least>> \o SortedSeq(S \ {least})

\* controller.enqueue of one frame
Send(sy, message, type) ==
    [sy EXCEPT !.last = Some([message |-> message, type |-> type]),
               !.errors = IF type = "error" THEN @ + 1 ELSE @]

\* a frame sent from inside a batch loop
SendInBatch(sy, message, type) ==
    [Send(sy, message, type) EXCEPT !.events = Append(@, type)]

\* the run when the stream starts: known are the products of the shop that
\* have an internal UUID, storedVariants the variants that have one,
\* noItemId the variants the platform sends without inventory_item_id
NewSync(known, storedVariants, size) ==
    [phase |-> "shop", page |-> 1, products |-> {}, known |-> known,
     storedVariants |-> storedVariants, inventoryItemIds |-> <<>>,
     batchSize |-> size, batch |-> 1, at |-> "for",
     retries |-> 0, success |-> FALSE,
     delays |-> <<>>, responses |-> <<>>, events |-> <<>>, outcomes |-> <<>>,
     requested |-> {}, costMap |-> <<>>, upserted |-> <<>>,
     variantUuids |-> {}, levelsToUpsert |-> <<>>, inventory_levels |-> <<>>,
     last |-> Null, errors |-> 0, closed |-> FALSE, closes |-> 0,
     noItemId |-> {}]

\* inventoryItemIds: the inventory items of the variants of the fetched
\* products that have an internal UUID
CollectItemIds(products, known, noItemId) ==
    SortedSeq({InventoryItemOf[v] :
                  v \in {w \in Variants \ noItemId :
                            ProductOf[w] \in products \cap known}})

\* the run at the head of the cost loop, the products fetched and saved
StartSync(products, known, storedVariants, size) ==
    [NewSync(known, storedVariants, size) EXCEPT
        !.phase = "costs", !.products = products,
        !.inventoryItemIds = CollectItemIds(products, known, {}),
        !.last = Some([message |-> "costs", type |-> "info"])]

\* inventoryItemIds.slice(i, i + 50) for the batch-th batch
BatchItems(sy, batch) ==
    {sy.inventoryItemIds[k] :
        k \in {j \in 1..Len(sy.inventoryItemIds) :
                  /\ j > (batch - 1) * sy.batchSize
                  /\ j <= batch * sy.batchSize}}

\* i < inventoryItemIds.length
HasBatch(sy) == (sy.batch - 1) * sy.batchSize < Len(sy.inventoryItemIds)

\* how the batch left its loop
Outcome(sy) ==
    IF sy.success THEN "success"
    ELSE IF sy.retries > MaxRetries THEN "exhausted" ELSE "failed"

\* faulty variant of EndBatch: a failed batch ends the whole loop
EndBatchAbort(sy, outcome) ==
    [sy EXCEPT !.at = "for",
               !.batch = IF outcome = "failed"
                         THEN Len(sy.inventoryItemIds) + 1 ELSE @ + 1,
               !.outcomes = Append(@, outcome)]

\* the end of the loop body: i += 50
EndBatch(sy, outcome) ==
    [sy EXCEPT !.at = "for", !.batch = @ + 1,
               !.outcomes = Append(@, outcome)]

\* the page-th page of products.json
PageProducts(page) ==
    IF page = 1 THEN {"p1"} ELSE IF page = 2 THEN {"p2"} ELSE {}

\* inventoryItemToVariantUuid: the inventory items of the stored variants of
\* the shop's products
VariantUuids(storedVariants, known, noItemId) ==
    {InventoryItemOf[v] :
        v \in {w \in storedVariants \ noItemId : ProductOf[w] \in known}}

\* the variant an inventory item belongs to
VariantOfItem(item) == CHOOSE v \in Variants : InventoryItemOf[v] = item

\* faulty variant of CostFor: a variant without fetched cost keeps the cost
\* it is stored with
CostForKept(costMap, noItemId, v) ==
    IF v \notin noItemId /\ InventoryItemOf[v] \in DOMAIN costMap
    THEN costMap[InventoryItemOf[v]]
    ELSE IF cost[v] = Null THEN 0 ELSE cost[v][1]

\* inventoryItemId ? (inventoryItemToCost[inventoryItemId] ?? 0) : 0
CostFor(costMap, noItemId, v) ==
    IF v \notin noItemId /\ InventoryItemOf[v] \in DOMAIN costMap
    THEN costMap[InventoryItemOf[v]]
    ELSE 0

\* faulty variant of VariantsToUpsert: the products without internal UUID
\* are not skipped
VariantsToUpsertAll(sy) ==
    [v \in {w \in Variants : ProductOf[w] \in sy.products} |->
        CostFor(sy.costMap, sy.noItemId, v)]

\* variantsToUpsert: the variants of the fetched products that have an
\* internal UUID, each with its cost of this run
VariantsToUpsert(sy) ==
    [v \in {w \in Variants : ProductOf[w] \in sy.products \cap sy.known} |->
        CostFor(sy.costMap, sy.noItemId, v)]

\* the initial frames and the lookup of the shop
SyncStart(shopFound) ==
    /\ sync.phase = "shop"
    /\ sync' = IF shopFound
               THEN [Send(sync, "products", "info") EXCEPT !.phase = "products"]
               ELSE [Send(sync, "shop not found", "error") EXCEPT
                        !.phase = "finally", !.closed = TRUE,
                        !.closes = @ + 1]
    /\ UNCHANGED <<orders, items, cost, mfConfigured, reqs, rules, stats, metafields, http>>

\* while (hasMorePages): one page of products.json
SyncFetchPage(ok, more) ==
    /\ sync.phase = "products"
    /\ sync' = IF ok /\ more /\ sync.page < MaxPages
               THEN [Send(sync, "page", "progress") EXCEPT
                        !.products = @ \cup PageProducts(sync.page),
                        !.page = @ + 1]
               ELSE [Send(IF ok THEN sync ELSE Send(sync, "page error", "error"),
                          "fetched", "success") EXCEPT
                        !.products = IF ok THEN @ \cup PageProducts(sync.page)
                                     ELSE @,
                        !.phase = "saveProducts"]
    /\ UNCHANGED <<orders, items, cost, mfConfigured, reqs, rules, stats, metafields, http>>

\* the upsert of products, productIdMap and the collection of inventoryItemIds
SyncSaveProducts(ok) ==
    /\ sync.phase = "saveProducts"
    /\ sync.products = {} => ok
    /\ LET known == IF ok THEN sync.known \cup sync.products ELSE sync.known
           saved == IF ok THEN sync ELSE Send(sync, "products not saved", "error")
       IN  sync' = [Send(saved, "costs", "info") EXCEPT
                       !.known = known,
                       !.inventoryItemIds = CollectItemIds(sync.products, known,
                                                           sync.noItemId),
                       !.phase = "costs", !.batch = 1, !.at = "for"]
    /\ UNCHANGED <<orders, items, cost, mfConfigured, reqs, rules, stats, metafields, http>>

\* for (i = 0; i < inventoryItemIds.length; i += 50): the progress event and
\* the locals of the batch, or the end of the loop
SyncForHead ==
    /\ sync.phase \in {"costs", "levels"}
    /\ sync.at = "for"
    /\ sync' = IF HasBatch(sync)
               THEN [Send(sync, "batch", "progress") EXCEPT
                        !.at = "while", !.retries = 0,
                        !.success = FALSE, !.delays = <<>>,
                        !.responses = <<>>,
                        !.events = <<"progress">>]
               ELSE IF sync.phase = "costs"
               THEN [Send(sync, "total", "progress") EXCEPT !.phase = "variants"]
               ELSE [sync EXCEPT !.phase = "saveLevels"]
    /\ UNCHANGED <<orders, items, cost, mfConfigured, reqs, rules, stats, metafields, http>>

\* while (!success && retries <= maxRetries): the wait, then the request
SyncWhileHead ==
    /\ sync.phase \in {"costs", "levels"}
    /\ sync.at = "while"
    /\ sync' = IF ~sync.success /\ sync.retries <= MaxRetries
               THEN [sync EXCEPT !.at = "fetch",
                                 !.delays = Append(@, Delay(sync.retries)),
                                 !.requested = @ \cup {<<sync.phase, sync.batch>>}]
               ELSE EndBatch(sync, Outcome(sync))
    /\ UNCHANGED <<orders, items, cost, mfConfigured, reqs, rules, stats, metafields, http>>

\* the body of a 200 response of the cost loop: costs maps each returned
\* inventory item to its cost field
CostsReceived(sy, costs) ==
    LET got == [sy EXCEPT !.costMap =
                    Merge(@, [k \in DOMAIN costs |-> ParsedCost(costs[k])])]
    IN  IF Cardinality(DOMAIN costs) < Cardinality(BatchItems(sy, sy.batch))
        THEN SendInBatch(got, "received fewer", "warning")
        ELSE got

\* the body of a 200 response of the level loop: levels maps each returned
\* <<inventory item, location>> to its available field
LevelsReceived(sy, levels) ==
    LET mapped == {k \in DOMAIN levels : k[1] \in sy.variantUuids}
    IN  [sy EXCEPT !.levelsToUpsert =
            Merge(@, [key \in {<<VariantOfItem(k[1]), k[2]>> : k \in mapped} |->
                         LevelQuantity(levels[<<InventoryItemOf[key[1]], key[2]>>])])]

\* the three branches on the response of a batch request
Respond(status, costs, levels) ==
    /\ sync.phase \in {"costs", "levels"}
    /\ sync.at = "fetch"
    /\ sync' =
          IF status = 200
          THEN [(IF sync.phase = "costs" THEN CostsReceived(sync, costs)
                 ELSE LevelsReceived(sync, levels))
                   EXCEPT !.at = "while", !.success = TRUE,
                          !.responses = Append(@, status)]
          ELSE IF status = 429
          THEN [SendInBatch(sync, "rate limit",
                            IF sync.retries + 1 <= MaxRetries
                            THEN "warning" ELSE "error")
                   EXCEPT !.at = "while", !.retries = @ + 1,
                          !.responses = Append(@, status)]
          ELSE EndBatch([SendInBatch(sync, "batch error", "error")
                            EXCEPT !.responses = Append(@, status)],
                        "failed")
    /\ UNCHANGED <<orders, items, cost, mfConfigured, reqs, rules, stats, metafields, http>>

\* faulty variant of SyncUpsertVariants: the upsert also reprices the order
\* items of the upserted variants
SyncUpsertVariantsReprice(ok) ==
    /\ sync.phase = "variants"
    /\ DOMAIN VariantsToUpsert(sync) = {} => ok
    /\ LET rows == VariantsToUpsert(sync)
       IN  /\ cost' = [v \in Variants |->
                          IF ok /\ v \in DOMAIN rows THEN Some(rows[v])
                          ELSE cost[v]]
           /\ items' = [i \in DOMAIN items |-> RecalcRow(items[i], cost')]
           /\ sync' = [Send(sync, "levels", "info") EXCEPT
                          !.upserted = rows,
                          !.phase = "levels", !.batch = 1, !.at = "for"]
    /\ UNCHANGED <<orders, mfConfigured, reqs, rules, stats, metafields, http>>

\* variantsToUpsert, its upsert into product_variants, and
\* inventoryItemToVariantUuid
SyncUpsertVariants(ok) ==
    /\ sync.phase = "variants"
    /\ DOMAIN VariantsToUpsert(sync) = {} => ok
    /\ LET rows   == VariantsToUpsert(sync)
           stored == IF ok THEN sync.storedVariants \cup DOMAIN rows
                     ELSE sync.storedVariants
           saved  == IF ok THEN sync ELSE Send(sync, "variants not saved", "error")
       IN  /\ cost' = [v \in Variants |->
                          IF ok /\ v \in DOMAIN rows THEN Some(rows[v])
                          ELSE cost[v]]
           /\ sync' = [Send(saved, "levels", "info") EXCEPT
                          !.upserted = rows,
                          !.storedVariants = stored,
                          !.variantUuids = VariantUuids(stored, sync.known,
                                                       sync.noItemId),
                          !.phase = "levels", !.batch = 1, !.at = "for"]
    /\ UNCHANGED <<orders, items, mfConfigured, reqs, rules, stats, metafields, http>>

\* the upsert of inventory_levels (its result is not inspected), the summary
\* and the DONE frame
SyncUpsertLevels(applied) ==
    /\ sync.phase = "saveLevels"
    /\ DOMAIN sync.levelsToUpsert = {} => applied
    /\ sync' = [Send(sync, "DONE", "success") EXCEPT
                   !.inventory_levels =
                       IF applied THEN Merge(@, sync.levelsToUpsert) ELSE @,
                   !.phase = "finally"]
    /\ UNCHANGED <<orders, items, cost, mfConfigured, reqs, rules, stats, metafields, http>>

\* an awaited call of the try block throws: catch (error) { send(..., 'error') }
SyncThrow ==
    /\ sync.phase \in {"shop", "products", "saveProducts", "costs", "variants",
                       "levels", "saveLevels"}
    /\ sync.phase \in {"costs", "levels"} => sync.at = "fetch"
    /\ sync' = [Send(sync, "exception", "error") EXCEPT !.phase = "finally"]
    /\ UNCHANGED <<orders, items, cost, mfConfigured, reqs, rules, stats, metafields, http>>

\* faulty variant of SyncFinally: the run ends without closing the channel
SyncFinallyNoClose ==
    /\ sync.phase = "finally"
    /\ sync' = [sync EXCEPT !.phase = "ended"]
    /\ UNCHANGED <<orders, items, cost, mfConfigured, reqs, rules, stats, metafields, http>>

\* finally { controller.close() }
SyncFinally ==
    /\ sync.phase = "finally"
    /\ sync' = [sync EXCEPT !.phase = "ended", !.closed = TRUE,
                            !.closes = @ + 1]
    /\ UNCHANGED <<orders, items, cost, mfConfigured, reqs, rules, stats, metafields, http>>

----------------------------------------------------------------------------
(* Specification SpecSync: the two inventory-item batch loops of a sync run *)
(* (costs, then levels) in batches of one item, each request answered 200,  *)
(* 429 or another status, up to the close of the stream                     *)

\* the 200 response that returns every item of the batch with cost 7.50
FullCosts(sy) == [k \in BatchItems(sy, sy.batch) |-> Some("7.50")]

\* the 200 response that returns 5 units at l1 for every item of the batch
FullLevels(sy) == [k \in BatchItems(sy, sy.batch) \X Locations |-> Some(5)]

InitSync ==
    /\ orders = [o \in Orders |-> NewOrder(o, BalanceOf[o])]
    /\ items = <<>>
    /\ cost = [v \in Variants |-> Null]
    /\ mfConfigured = FALSE
    /\ reqs = <<>>
    /\ metafields = Null
    /\ http = Null
    /\ rules = Null
    /\ stats = Null
    /\ \E products \in SUBSET Products :
          sync = StartSync(products, products, {}, 1)

SyncResponse ==
    \E status \in Responses :
        Respond(status, FullCosts(sync), FullLevels(sync))

SyncSaveVariants == \E ok \in BOOLEAN : SyncUpsertVariants(ok)

SyncSaveLevels == \E applied \in BOOLEAN : SyncUpsertLevels(applied)

NextSync ==
    \/ SyncForHead
    \/ SyncWhileHead
    \/ SyncResponse
    \/ SyncSaveVariants
    \/ SyncSaveLevels
    \/ SyncFinally

SpecSync == InitSync /\ [][NextSync]_vars

----------------------------------------------------------------------------
(* Specification SpecCosts: a run whose inventory items fit one batch, the   *)
(* cost request answered with any subset of the batch and any cost fields   *)

\* the bodies a 200 response of the cost loop can carry for the batch
CostBodies(sy) ==
    UNION {[S -> CostFields] : S \in SUBSET BatchItems(sy, sy.batch)}

InitCosts ==
    /\ orders = [o \in Orders |-> NewOrder(o, BalanceOf[o])]
    /\ items = <<>>
    /\ cost = [v \in Variants |-> Null]
    /\ mfConfigured = FALSE
    /\ reqs = <<>>
    /\ metafields = Null
    /\ http = Null
    /\ rules = Null
    /\ stats = Null
    /\ \E products \in SUBSET Products :
          sync = StartSync(products, products, {}, 2)

CostsResponse ==
    \/ \E costs \in CostBodies(sync) : Respond(200, costs, FullLevels(sync))
    \/ \E status \in Responses \ {200} : Respond(status, <<>>, <<>>)

NextCosts ==
    \/ SyncForHead
    \/ SyncWhileHead
    \/ CostsResponse
    \/ SyncSaveVariants
    \/ SyncSaveLevels
    \/ SyncFinally

SpecCosts == InitCosts /\ [][NextCosts]_vars

----------------------------------------------------------------------------
(* Specification SpecStream: whole runs of the stream, from the lookup of   *)
(* the shop to the close of the channel, any awaited call may throw; a run  *)
(* keeps taking steps until it has ended                                    *)

InitStream ==
    /\ orders = [o \in Orders |-> NewOrder(o, BalanceOf[o])]
    /\ items = <<>>
    /\ cost = [v \in Variants |-> Null]
    /\ mfConfigured = FALSE
    /\ reqs = <<>>
    /\ metafields = Null
    /\ http = Null
    /\ rules = Null
    /\ stats = Null
    /\ \E known \in SUBSET Products :
          sync = NewSync(known, {v \in Variants : ProductOf[v] \in known}, 2)

StreamStart == \E shopFound \in BOOLEAN : SyncStart(shopFound)

StreamFetchPage == \E ok \in BOOLEAN, more \in BOOLEAN : SyncFetchPage(ok, more)

StreamSaveProducts == \E ok \in BOOLEAN : SyncSaveProducts(ok)

NextStream ==
    \/ StreamStart
    \/ StreamFetchPage
    \/ StreamSaveProducts
    \/ SyncForHead
    \/ SyncWhileHead
    \/ SyncResponse
    \/ SyncSaveVariants
    \/ SyncSaveLevels
    \/ SyncThrow
    \/ SyncFinally

SpecStream == InitStream /\ [][NextStream]_vars /\ WF_vars(NextStream)

----------------------------------------------------------------------------
(* Specification SpecLevels: runs from the save of the fetched products on, *)
(* with products and variants that have or lack an internal UUID, the level *)
(* request answered with any subset of the batch and any available fields   *)

\* the bodies a 200 response of the level loop can carry for the batch
LevelBodies(sy) ==
    UNION {[S \X Locations -> AvailableFields] :
              S \in SUBSET BatchItems(sy, sy.batch)}

InitLevels ==
    /\ orders = [o \in Orders |-> NewOrder(o, BalanceOf[o])]
    /\ items = <<>>
    /\ cost = [v \in Variants |-> Null]
    /\ mfConfigured = FALSE
    /\ reqs = <<>>
    /\ metafields = Null
    /\ http = Null
    /\ rules = Null
    /\ stats = Null
    /\ \E products \in SUBSET Products, known \in SUBSET Products :
          \E stored \in SUBSET {v \in Variants : ProductOf[v] \in known} :
              sync = [Send(NewSync(known, stored, 2), "fetched", "success")
                         EXCEPT !.phase = "saveProducts", !.products = products]

LevelsSaveProducts == \E ok \in BOOLEAN : SyncSaveProducts(ok)

LevelsResponse ==
    \/ sync.phase = "costs" /\ Respond(200, FullCosts(sync), <<>>)
    \/ /\ sync.phase = "levels"
       /\ \E levels \in LevelBodies(sync) : Respond(200, <<>>, levels)

NextLevels ==
    \/ LevelsSaveProducts
    \/ SyncForHead
    \/ SyncWhileHead
    \/ LevelsResponse
    \/ SyncSaveVariants
    \/ SyncSaveLevels
    \/ SyncFinally

SpecLevels == InitLevels /\ [][NextLevels]_vars

----------------------------------------------------------------------------
(* Specification SpecSnapshot: a sync run over the variants of an order     *)
(* that holds rows, with Recalculate prices and Update item requests        *)
(* handled before, during and after the run                                 *)

\* order o1 holds a validated row of v1 and an unvalidated row of v2, both
\* inserted at cost 7.50; the run is at the head of its cost loop
InitSnapshot ==
    /\ items = [i \in {1, 2} |->
                   IF i = 1
                   THEN [TotalsRow(750) EXCEPT !.is_validated = TRUE,
                                               !.validated_at = "stamp"]
                   ELSE [TotalsRow(750) EXCEPT !.variant_id = Some("v2")]]
    /\ orders = UpdateOrderTotals(
                    [o \in Orders |->
                        [NewOrder(o, BalanceOf[o]) EXCEPT !.status = AddItemsStatus]],
                    items, "o1", ShopOf["o1"])
    /\ cost = [v \in Variants |-> Some(750)]
    /\ mfConfigured = FALSE
    /\ reqs = <<>>
    /\ metafields = Null
    /\ http = Null
    /\ rules = Null
    /\ stats = Null
    /\ sync = StartSync(Products, Products, Variants, 2)

SnapshotResponse ==
    \/ /\ sync.phase = "costs"
       /\ \E costs \in [BatchItems(sync, sync.batch) -> CostFields] :
             Respond(200, costs, <<>>)
    \/ sync.phase = "levels" /\ Respond(200, <<>>, FullLevels(sync))

SnapshotUpdateItem ==
    \E i \in DOMAIN items :
        UpdateItem("o1", ShopOf["o1"], i, Null, Null, Null, Some(500))

SnapshotRecalculatePrices == RecalculatePrices("o1", ShopOf["o1"])

NextSnapshot ==
    \/ SyncForHead
    \/ SyncWhileHead
    \/ SnapshotResponse
    \/ SyncSaveVariants
    \/ SyncSaveLevels
    \/ SyncFinally
    \/ SnapshotUpdateItem
    \/ SnapshotRecalculatePrices

SpecSnapshot == InitSnapshot /\ [][NextSnapshot]_vars

----------------------------------------------------------------------------
(* Claims *)

\* the ids of the validated rows of order o
ValidatedRows(o) ==
    {i \in DOMAIN items : items[i].order_id = o /\ items[i].is_validated = TRUE}

\* C1: after any sequence of Add items, Update item, Delete item and
\* Recalculate prices requests handled one at a time, the stored subtotal of
\* every order is the sum of line_total over its validated rows and no other
\* row (Spec).
C1_SubtotalIsValidatedSum ==
    \A o \in Orders :
        orders[o].subtotal =
            SumOver(ValidatedRows(o), [i \in DOMAIN items |-> items[i].line_total])

\* C1 witness: an order holds a validated row and an unvalidated row, both
\* with a positive line total, and its subtotal counts the validated one only.
C1_Witness ==
    \E o \in Orders : \E i, j \in ItemsOf(items, o) :
        /\ items[i].is_validated /\ items[i].line_total > 0
        /\ ~items[j].is_validated /\ items[j].line_total > 0
        /\ orders[o].subtotal = items[i].line_total

\* C2: whenever the totals of an order are recomputed, the stored total_ht is
\* subtotal + balance_adjustment and the stored total_ttc is total_ht * 1.2,
\* for negative, zero and positive balance adjustments (SpecTotals).
C2_TotalsEquations ==
    \A o \in Orders :
        /\ orders[o].total_ht = orders[o].subtotal + orders[o].balance_adjustment
        /\ 10 * orders[o].total_ttc = 12 * orders[o].total_ht

\* C2 witness: validated line totals 10.00 and 15.00, one unvalidated 99.00,
\* balance -5.00: subtotal 25.00, total_ht 20.00, total_ttc 24.00.
C2_Witness ==
    /\ DOMAIN items = {1, 2, 3}
    /\ items[1].line_total = 1000 /\ items[1].is_validated
    /\ items[2].line_total = 1500 /\ items[2].is_validated
    /\ items[3].line_total = 9900 /\ ~items[3].is_validated
    /\ orders["o1"].balance_adjustment = -500
    /\ orders["o1"].subtotal = 2500
    /\ orders["o1"].total_ht = 2000
    /\ orders["o1"].total_ttc = 2400

\* C3: after every Update item request on a stored row that supplies
\* quantity, unit_price or both, the row's line_total is its unit_price times
\* its quantity (Spec).
C3_LineTotalAfterUpdate ==
    [][\A o \in Orders, i \in DOMAIN items, r \in UpdateRequests :
          (/\ r.quantity # Null \/ r.unit_price # Null
           /\ UpdateItem(o, ShopOf[o], i, r.is_validated, r.is_printed,
                         r.quantity, r.unit_price))
          => items'[i].line_total = items'[i].unit_price * items'[i].quantity]_vars

\* C4: every stored row has quantity 1 in every reachable state (Spec).
C4_QuantityAlwaysOne ==
    \A i \in DOMAIN items : items[i].quantity = 1

\* the requested quantities of the entries of variant reference x
RequestedFor(entries, x) ==
    SumUpTo(Len(entries), {k \in 1..Len(entries) : entries[k].variant_id = x},
            [k \in 1..Len(entries) |-> entries[k].quantity])

\* C5: an Add items request whose entries all have quantity >= 1 inserts, for
\* each variant, as many rows as its entries request, each with quantity 1 and
\* unit_price = line_total = the variant's cost at the time of the request (0
\* without a cost); it inserts no other row and leaves the stored rows as they
\* were (SpecAdd).
C5_AddInsertsUnitRows ==
    [][\A o \in Orders, entries \in AddItemRequests(Variants) :
          (/\ \A k \in 1..Len(entries) : entries[k].quantity >= 1
           /\ AddItems(o, ShopOf[o], entries, FALSE, TRUE))
          => LET new == DOMAIN items' \ DOMAIN items
             IN  /\ DOMAIN items \subseteq DOMAIN items'
                 /\ \A i \in DOMAIN items : items'[i] = items[i]
                 /\ Cardinality(new) =
                        RequestedFor(entries, Some("v1"))
                        + RequestedFor(entries, Some("v2"))
                 /\ \A v \in Variants :
                        Cardinality({i \in new : items'[i].variant_id = Some(v)})
                            = RequestedFor(entries, Some(v))
                 /\ \A i \in new :
                        /\ items'[i].order_id = o
                        /\ items'[i].quantity = 1
                        /\ \E v \in Variants :
                              /\ items'[i].variant_id = Some(v)
                              /\ items'[i].unit_price =
                                     (IF cost[v] = Null THEN 0 ELSE cost[v][1])
                              /\ items'[i].line_total = items'[i].unit_price]_vars

\* C5 witness: three rows of variant v1 on order o1, each with quantity 1 and
\* unit_price = line_total = 7.50, the cost of v1.
C5_Witness ==
    /\ DOMAIN items = {1, 2, 3}
    /\ cost["v1"] = Some(750)
    /\ \A i \in DOMAIN items :
          /\ items[i].order_id = "o1" /\ items[i].variant_id = Some("v1")
          /\ items[i].quantity = 1
          /\ items[i].unit_price = 750 /\ items[i].line_total = 750

\* C6: the status of every order is one of draft, requested, produced,
\* completed in every reachable state (SpecStatus).
C6_StatusDeclared ==
    \A o \in Orders : orders[o].status \in DeclaredStatuses

\* the status changes the pipeline allows
AllowedTransitions ==
    {<<"draft", "requested">>, <<"requested", "produced">>,
     <<"produced", "completed">>, <<"requested", "draft">>,
     <<"produced", "requested">>}

\* C7: every status change requested from the order page is one of
\* draft->requested, requested->produced, produced->completed,
\* requested->draft, produced->requested, and no step (status action, Add
\* items, Delete item) changes the status of a completed order (SpecStatus).
C7_StatusTransitions ==
    [][\A o \in Orders :
          /\ \A s \in Statuses :
                ChangeStatus(o, s) => <<orders[o].status, s>> \in AllowedTransitions
          /\ orders[o].status = "completed" => orders'[o].status = "completed"]_vars

\* C7 witness: an order with rows has reached completed.
C7_Witness ==
    \E o \in Orders : orders[o].status = "completed" /\ ItemsOf(items, o) # {}

\* C8: Recalculate prices applied twice in succession, with the variant costs
\* unchanged in between, leaves every row and every order as the first
\* application left them (Spec).
C8_RecalculateIdempotent ==
    \A o \in Orders :
        LET once  == RecalcResult(orders, items, cost, o, ShopOf[o])
            twice == RecalcResult(once.orders, once.items, cost, o, ShopOf[o])
        IN  twice = once

\* C8 witness: an order holds a validated row of quantity 2 whose unit_price
\* is not the current cost of its variant, so that the first application
\* changes the row and the totals.
C8_Witness ==
    \E o \in Orders : \E i \in ItemsOf(items, o) :
        /\ items[i].is_validated /\ items[i].quantity = 2
        /\ cost["v1"] = Some(750) /\ items[i].unit_price = 500
        /\ RecalcResult(orders, items, cost, o, ShopOf[o]).orders[o].subtotal = 1500
        /\ orders[o].subtotal = 1000

\* every request the page fired has been answered
AllAnswered == \A k \in 1..Len(reqs) : reqs[k].pc = "done"

\* C9: requests on one order that run concurrently are not serialised: the
\* stored totals are those computed by the request that wrote last, from the
\* rows it read at its own read step (last write wins); so once every request
\* is answered the stored subtotal can differ from the validated sum of the
\* rows then stored (SpecRace).
C9_LastWriteWins ==
    \A k \in 1..Len(reqs) :
        (reqs[k].written > 0 /\ reqs[k].written = Writes(reqs))
        => /\ orders[RaceOrder].subtotal = reqs[k].subtotal
           /\ orders[RaceOrder].total_ht = reqs[k].subtotal + reqs[k].balance
           /\ 10 * orders[RaceOrder].total_ttc = 12 * orders[RaceOrder].total_ht

\* C9 witness: two DELETE requests on two validated rows have both been
\* answered, and the stored subtotal is not the validated sum of the rows
\* left.
C9_Witness ==
    /\ Len(reqs) = 2
    /\ AllAnswered
    /\ reqs[1].kind = "delete" /\ reqs[2].kind = "delete"
    /\ reqs[1].itemId # reqs[2].itemId
    /\ reqs[1].written > 0 /\ reqs[2].written > 0
    /\ orders[RaceOrder].subtotal #
           SumOver(ValidatedRows(RaceOrder),
                   [i \in DOMAIN items |-> items[i].line_total])

\* the waits of a batch that exhausts its retries, in ms
BackoffSchedule == <<500, 2000, 4000, 8000>>

\* C10: for the batch a sync run is working on, in the cost loop and in the
\* level loop: at most 4 requests are sent; the k-th request is preceded by a
\* wait of 500, 2000, 4000, 8000 ms for k = 1..4; a request other than the
\* first follows a 429 response only; and once the fourth request is answered
\* 429 the batch has emitted an error event and sends no further request
\* (SpecSync).
C10_RetrySchedule ==
    sync.phase \in {"costs", "levels"} =>
        LET sent == Len(sync.delays)
            got  == Len(sync.responses)
        IN  /\ sent <= 4
            /\ got <= sent /\ sent <= got + 1
            /\ \A k \in 1..sent : sync.delays[k] = BackoffSchedule[k]
            /\ \A k \in 1..got : k < sent => sync.responses[k] = 429
            /\ (got = 4 /\ sync.responses[4] = 429)
                   => /\ sync.at # "fetch"
                      /\ ~sync.success
                      /\ sync.events[Len(sync.events)] = "error"
                      /\ Len(sync.events) = 5

\* C10 witness: a level batch was answered 429 four times after waits of 500,
\* 2000, 4000 and 8000 ms, after a cost batch that exhausted its retries too.
C10_Witness ==
    /\ sync.phase = "levels"
    /\ sync.responses = <<429, 429, 429, 429>>
    /\ sync.delays = <<500, 2000, 4000, 8000>>
    /\ sync.events = <<"progress", "warning", "warning", "warning", "error">>
    /\ sync.outcomes # <<>> /\ sync.outcomes[1] = "exhausted"

\* the cost, in cents, the cost map must hold for a cost field
ExpectedCost(field) ==
    IF field = Some("7.50") THEN 750
    ELSE IF field = Some("10.00") THEN 1000
    ELSE 0

\* C11: when a cost batch is answered 200 after k responses 429 (0 <= k <= 3),
\* the batch has succeeded with exactly k retries and k + 1 requests, the
\* cost map holds the parsed cost of every item the response returned (0 for
\* an item without cost), and the loop is left without another request
\* (SpecCosts).
C11_SuccessAfterRetries ==
    [][/\ \A costs \in CostBodies(sync) :
             (sync.phase = "costs" /\ Respond(200, costs, FullLevels(sync)))
             => LET k == Len(sync.responses)
                IN  /\ k <= 3
                    /\ \A j \in 1..k : sync.responses[j] = 429
                    /\ sync'.success
                    /\ sync'.retries = k
                    /\ Len(sync'.delays) = k + 1
                    /\ \A item \in DOMAIN costs :
                          /\ item \in DOMAIN sync'.costMap
                          /\ sync'.costMap[item] = ExpectedCost(costs[item])
       /\ (sync.phase = "costs" /\ sync.at = "while" /\ sync.success)
             => /\ sync'.at = "for"
                /\ sync'.delays = sync.delays
                /\ sync'.outcomes = Append(sync.outcomes, "success")]_vars

\* C11 witness: a cost batch of two items was answered 429 twice, then 200
\* with costs "7.50" and none: two retries, three requests, costs 7.50 and 0.
C11_Witness ==
    /\ sync.phase = "costs"
    /\ sync.responses = <<429, 429, 200>>
    /\ sync.success /\ sync.retries = 2
    /\ Len(sync.delays) = 3
    /\ DOMAIN sync.costMap = {1, 2}
    /\ sync.costMap[1] = 750 /\ sync.costMap[2] = 0

\* the batches of the two loops of the run
AllBatches ==
    {"costs", "levels"} \X
        {b \in 1..Len(sync.inventoryItemIds) :
            (b - 1) * sync.batchSize < Len(sync.inventoryItemIds)}

\* C12: a response other than 2xx and 429 for a batch emits an error event
\* and ends that batch only: the loop moves to the next batch in the same
\* phase, the cost map and the levels collected from earlier batches are
\* kept, no request is ever sent for a batch the loop has left, and a run
\* that has closed its stream has requested every batch of both loops, gone
\* through both upserts and sent DONE last (SpecSync).
C12_BatchErrorIsLocal ==
    /\ [][/\ (sync.phase \in {"costs", "levels"} /\ sync.at = "fetch"
              /\ Respond(500, FullCosts(sync), FullLevels(sync)))
             => /\ sync'.phase = sync.phase
                /\ sync'.at = "for"
                /\ sync'.batch = sync.batch + 1
                /\ sync'.events[Len(sync'.events)] = "error"
                /\ sync'.last = Some([message |-> "batch error", type |-> "error"])
                /\ sync'.costMap = sync.costMap
                /\ sync'.levelsToUpsert = sync.levelsToUpsert
                /\ sync'.requested = sync.requested
          /\ (sync.phase \in {"costs", "levels"} /\ sync'.phase = sync.phase)
             => /\ sync'.batch >= sync.batch
                /\ sync'.requested \subseteq
                       sync.requested \cup {<<sync.phase, sync.batch>>}
                /\ \A k \in DOMAIN sync.costMap :
                       k \in DOMAIN sync'.costMap
                       /\ sync'.costMap[k] = sync.costMap[k]]_vars
    /\ [](sync.phase = "ended"
             => /\ sync.requested = AllBatches
                /\ Len(sync.outcomes) = Cardinality(AllBatches)
                /\ DOMAIN sync.upserted =
                       {v \in Variants : ProductOf[v] \in sync.products}
                /\ sync.last = Some([message |-> "DONE", type |-> "success"]))

\* C12 witness: the first cost batch was answered 500 and the second 200; the
\* run has ended after DONE, with the cost of the second batch stored and the
\* variant of the failed batch upserted with cost 0.
C12_Witness ==
    /\ sync.phase = "ended"
    /\ Len(sync.outcomes) = 4
    /\ sync.outcomes[1] = "failed" /\ sync.outcomes[2] = "success"
    /\ sync.costMap = (2 :> 750)
    /\ cost["v1"] = Some(0) /\ cost["v2"] = Some(750)
    /\ sync.last = Some([message |-> "DONE", type |-> "success"])

\* C13: every run of the stream eventually closes its channel and ends,
\* after normal completion, after the shop was not found and after an
\* exception of an awaited call; the exception is reported by an error frame
\* sent while the channel is still open, and the run then goes to the close
\* (SpecStream).
C13_AlwaysCloses ==
    /\ <>[](sync.phase = "ended" /\ sync.closed)
    /\ [][SyncThrow => /\ ~sync.closed /\ ~sync'.closed
                       /\ sync'.last = Some([message |-> "exception",
                                             type |-> "error"])
                       /\ sync'.errors = sync.errors + 1
                       /\ sync'.phase = "finally"]_vars
    /\ [][sync.phase = "finally" => sync'.phase = "ended" /\ sync'.closed]_vars

\* C13 witness: an exception was thrown while the level loop awaited a
\* response; the run has ended with the channel closed, the error frame last.
C13_Witness ==
    /\ sync.phase = "ended" /\ sync.closed
    /\ sync.at = "fetch" /\ sync.variantUuids # {}
    /\ sync.last = Some([message |-> "exception", type |-> "error"])

\* C14: whenever the channel of a run is closed, the last frame sent on it
\* is the frame of type success with message DONE (SpecStream).
C14_DoneIsLastFrame ==
    sync.closed => sync.last = Some([message |-> "DONE", type |-> "success"])

\* the variants of the platform products that have an internal UUID
WithProductUuid == {v \in Variants : ProductOf[v] \in sync.known}

\* C15: a fetched product without internal UUID contributes no variant to the
\* variant upsert and leaves the stored cost of its variants alone, while the
\* variants of the other fetched products are all upserted; a returned level
\* whose inventory item maps to no stored variant is not collected for the
\* level upsert, while the other returned levels are all collected; neither
\* skip sends an error frame (SpecLevels).
C15_UnmappedAreSkipped ==
    [][/\ (sync.phase = "variants" /\ sync'.phase = "levels")
             => /\ DOMAIN sync'.upserted =
                       {v \in WithProductUuid : ProductOf[v] \in sync.products}
                /\ \A v \in Variants \ WithProductUuid : cost'[v] = cost[v]
                /\ SyncUpsertVariants(TRUE) => sync'.errors = sync.errors
       /\ \A levels \in LevelBodies(sync) :
             (sync.phase = "levels" /\ Respond(200, <<>>, levels))
             => /\ sync'.errors = sync.errors
                /\ sync'.success
                /\ \A v \in Variants, l \in Locations :
                      LET returned == <<InventoryItemOf[v], l>> \in DOMAIN levels
                          mapped   == v \in sync.storedVariants \cap WithProductUuid
                          before   == <<v, l>> \in DOMAIN sync.levelsToUpsert
                          after    == <<v, l>> \in DOMAIN sync'.levelsToUpsert
                      IN  after <=> (before \/ (returned /\ mapped))]_vars

\* C15 witness: both products were fetched, p1 has no internal UUID and the
\* variant upsert failed, so that v1 is not upserted and the level loop, its
\* request answered 200, finds no stored variant for inventory item 2.
C15_Witness ==
    /\ sync.phase = "levels" /\ sync.success
    /\ sync.products = {"p1", "p2"} /\ sync.known = {"p2"}
    /\ DOMAIN sync.upserted = {"v2"}
    /\ sync.inventoryItemIds = <<2>>
    /\ sync.variantUuids = {}
    /\ sync.levelsToUpsert = <<>>
    /\ sync.errors = 2

\* C16: every stored inventory level has a quantity >= 0 (SpecLevels).
C16_LevelsNonNegative ==
    \A key \in DOMAIN sync.inventory_levels : sync.inventory_levels[key] >= 0

MaxModifiers == 2

\* Base prices and modifier amounts, in cents.
BasePrices == {0, 1000}

\* A modifier row carries its amount as modifier_amount (rows joined from
\* the modifier tables) or as amount (rows built by the form); the other
\* field is undefined.
ModifierRow(modifier_amount, amount) ==
    [modifier_amount |-> modifier_amount, amount |-> amount]

ModifierRows ==
    { ModifierRow(Some(-50), Null), ModifierRow(Some(0), Null),
      ModifierRow(Null, Some(150)) }

ModifierLists ==
    UNION { [1..n -> ModifierRows] : n \in 0..MaxModifiers }

\* option_modifiers may be missing from a rule.
PriceRules ==
    [base_price : BasePrices,
     modifiers : ModifierLists,
     option_modifiers : {Null} \cup { Some(l) : l \in ModifierLists }]

\* faulty variant of ModifierAmount: reads the joined column only
ModifierAmountDbOnly(m) == OrElse(m.modifier_amount, 0)

\* m.modifier_amount || m.amount || 0
ModifierAmount(m) == OrElse(m.modifier_amount, OrElse(m.amount, 0))

\* list.reduce((sum, m) => sum + amount, start), from left to right
RECURSIVE ReduceAmounts(_, _)
ReduceAmounts(list, sum) ==
    IF list = <<>> THEN sum
    ELSE ReduceAmounts(Tail(list), sum + ModifierAmount(Head(list)))

\* rule.option_modifiers || []
OptionModifiers(rule) ==
    IF rule.option_modifiers = Null THEN <<>> ELSE rule.option_modifiers[1]

calculateTotalPrice(rule) ==
    LET modifiersTotal == ReduceAmounts(rule.modifiers, 0)
        optionModifiersTotal == ReduceAmounts(OptionModifiers(rule), 0)
    IN  rule.base_price + modifiersTotal + optionModifiersTotal

\* The orders in which a list of n rows can come back from the store.
RowOrders(n) ==
    { p \in [1..n -> 1..n] : \A i, j \in 1..n : p[i] = p[j] => i = j }

Reordered(list, p) == [i \in 1..Len(list) |-> list[p[i]]]

\* fetchRules: the page stores the rule it received and renders its total;
\* before is the rule shown until then.
FetchRules(rule) ==
    /\ rules' = [rule |-> rule,
                 total |-> calculateTotalPrice(rule),
                 before |-> IF rules = Null THEN Null ELSE Some(rules.rule)]
    /\ UNCHANGED <<orders, items, cost, mfConfigured, reqs, sync, stats, metafields, http>>

\* First load of the page.
RulesLoad ==
    /\ rules = Null
    /\ \E rule \in PriceRules : FetchRules(rule)

\* A later load returns the same rule with its modifier rows in any order.
RulesReload ==
    /\ rules # Null
    /\ \E p \in RowOrders(Len(rules.rule.modifiers)),
          q \in RowOrders(Len(OptionModifiers(rules.rule))) :
          FetchRules([rules.rule EXCEPT
              !.modifiers = Reordered(@, p),
              !.option_modifiers =
                  IF @ = Null THEN Null ELSE Some(Reordered(@[1], q))])

InitRules ==
    /\ orders = [o \in Orders |-> NewOrder(o, BalanceOf[o])]
    /\ items = <<>>
    /\ cost = [v \in Variants |-> Null]
    /\ mfConfigured = FALSE
    /\ reqs = <<>>
    /\ metafields = Null
    /\ http = Null
    /\ sync = NoSync
    /\ rules = Null
    /\ stats = Null

NextRules == RulesLoad \/ RulesReload

SpecRules == InitRules /\ [][NextRules]_vars

\* The amount a modifier row carries, whichever field holds it.
CarriedAmount(m) ==
    IF m.modifier_amount # Null THEN m.modifier_amount[1]
    ELSE IF m.amount # Null THEN m.amount[1] ELSE 0

\* Sum of the carried amounts over the positions of a list, taken in no
\* particular order.
RECURSIVE AmountsOver(_, _)
AmountsOver(list, positions) ==
    IF positions = {} THEN 0
    ELSE LET i == CHOOSE k \in positions : \A l \in positions : k >= l
         IN  CarriedAmount(list[i]) + AmountsOver(list, positions \ {i})

AmountsOf(list) == AmountsOver(list, DOMAIN list)

\* b holds the rows of a in some order.
SameRows(a, b) ==
    /\ Len(a) = Len(b)
    /\ \E p \in RowOrders(Len(a)) : b = Reordered(a, p)

\* C18: the total shown for a price rule is base_price plus the sum of the
\* amounts of its metafield modifiers and of its option modifiers, and a
\* rule whose two modifier lists come back in another order shows the same
\* total.
C18_TotalIsOrderIndependent ==
    /\ [](rules # Null =>
            rules.total = rules.rule.base_price
                          + AmountsOf(rules.rule.modifiers)
                          + AmountsOf(OptionModifiers(rules.rule)))
    /\ [][(/\ rules # Null
           /\ rules' # Null
           /\ rules'.rule.base_price = rules.rule.base_price
           /\ SameRows(rules.rule.modifiers, rules'.rule.modifiers)
           /\ SameRows(OptionModifiers(rules.rule),
                       OptionModifiers(rules'.rule)))
          => rules'.total = rules.total]_vars

\* A rule with two modifiers of different amounts and an option modifier
\* was fetched again with its modifiers in the other order.
C18_Witness ==
    /\ rules # Null
    /\ rules.before # Null
    /\ Len(rules.rule.modifiers) = 2
    /\ ModifierAmount(rules.rule.modifiers[1])
           # ModifierAmount(rules.rule.modifiers[2])
    /\ rules.before[1].modifiers[1] = rules.rule.modifiers[2]
    /\ rules.before[1].modifiers[2] = rules.rule.modifiers[1]
    /\ Len(OptionModifiers(rules.rule)) >= 1
    /\ rules.total # rules.rule.base_price

\* ---------------------------------------------------------------------
\* Inventory stats route
\* ---------------------------------------------------------------------

\* Largest number of variants drawn for the stored catalogue.
MaxVariants == 2

\* byColor keeps this many groups in the response.
ColorLimit == 15

\* topProducts keeps this many products.
TopLimit == 10

\* The file holds two definitions of the handler: the first counts the
\* variants and knows no price, the second reads the price and reports
\* sale value and profit.
Revisions == {1, 2}

DigitChars == {"0", "1", "2", "3", "4", "5", "6", "7", "8", "9"}

toUpperChar(c) ==
    IF \E k \in DOMAIN LowerCase : LowerCase[k] = c
    THEN UpperCase[CHOOSE k \in DOMAIN LowerCase : LowerCase[k] = c]
    ELSE c

\* option.toUpperCase()
toUpperCase(str) == [i \in DOMAIN str |-> toUpperChar(str[i])]

\* The words of the size pattern.
SizeWords ==
    { <<"X", "X", "X", "S">>, <<"X", "X", "S">>, <<"X", "S">>, <<"S">>,
      <<"M">>, <<"L">>, <<"X", "L">>, <<"X", "X", "L">>,
      <<"2", "X", "L">>, <<"3", "X", "L">>, <<"4", "X", "L">>,
      <<"5", "X", "L">> }

\* faulty variant of sizePattern: the pattern without its i flag
sizePatternCaseSensitive(str) ==
    \/ str \in SizeWords
    \/ Len(str) >= 1 /\ \A i \in DOMAIN str : str[i] \in DigitChars

\* /^(XXXS|XXS|XS|S|M|L|XL|XXL|2XL|3XL|4XL|5XL|\d+)$/i .test(str): the
\* whole string is one of the words, letters of either case, or digits only.
sizePattern(str) ==
    \/ toUpperCase(str) \in SizeWords
    \/ Len(str) >= 1 /\ \A i \in DOMAIN str : str[i] \in DigitChars

\* value || fallback, for a string field
TextOrElse(field, fallback) ==
    IF field = Null \/ field[1] = "" THEN fallback
    ELSE field[1]

\* A stored variant with its product and its inventory levels.
VariantRow(option1, option2, option3, variantCost, price, title, product_type, inventory_levels) ==
    [option1 |-> option1, option2 |-> option2, option3 |-> option3,
     cost |-> variantCost, price |-> price,
     product |-> [title |-> title, product_type |-> product_type],
     inventory_levels |-> inventory_levels]

Level(quantity, location_id) ==
    [quantity |-> quantity, location_id |-> location_id]

StatsLocations == {"l1", "l2"}

\* The rows the query returns: inventory_levels is an inner join, so a
\* variant comes back with the levels that pass the location filter and
\* only when it has one.
RECURSIVE SelectLevels(_, _)
SelectLevels(levels, locationId) ==
    IF levels = <<>> THEN <<>>
    ELSE LET rest == SelectLevels(Tail(levels), locationId)
         IN  IF locationId = Null \/ Head(levels).location_id = locationId[1]
             THEN <<Head(levels)>> \o rest
             ELSE rest

RECURSIVE JoinedRows(_, _)
JoinedRows(variants, locationId) ==
    IF variants = <<>> THEN <<>>
    ELSE LET levels == SelectLevels(Head(variants).inventory_levels,
                                    locationId)
             rest == JoinedRows(Tail(variants), locationId)
         IN  IF levels = <<>> THEN rest
             ELSE <<[Head(variants) EXCEPT !.inventory_levels = levels]>>
                  \o rest

\* inventoryLevels.reduce((sum, il) => sum + (il.quantity || 0), 0)
RECURSIVE TotalQuantity(_)
TotalQuantity(levels) ==
    IF levels = <<>> THEN 0
    ELSE OrElse(Head(levels).quantity, 0) + TotalQuantity(Tail(levels))

\* [option1, option2, option3].filter(Boolean)
OptionsOf(variant) ==
    SelectSeq(<<variant.option1, variant.option2, variant.option3>>,
              LAMBDA o : o # Null /\ o[1] # <<>>)

HasKey(entries, key) == \E i \in DOMAIN entries : entries[i].key = key

\* if (!group[key]) group[key] = { every figure 0 }; then each figure of
\* the entry of key grows by its part of add. Entries keep the order in
\* which their keys were first seen.
Tally(entries, key, add) ==
    LET zero == [f \in DOMAIN add \cup {"key"} |->
                    IF f = "key" THEN key ELSE 0]
        present == IF HasKey(entries, key) THEN entries
                   ELSE Append(entries, zero)
        grown(e) == [f \in DOMAIN e |->
                        IF f = "key" THEN key ELSE e[f] + add[f]]
    IN  [i \in DOMAIN present |->
            IF present[i].key = key THEN grown(present[i]) ELSE present[i]]

\* One option value of a variant: bySize under the uppercased value when
\* the size pattern matches, byColor under the value itself otherwise.
CountOption(acc, option, totalQuantity) ==
    LET add == [count |-> 1, stock |-> totalQuantity]
    IN  IF sizePattern(option)
        THEN [acc EXCEPT !.bySize = Tally(@, toUpperCase(option), add)]
        ELSE [acc EXCEPT !.byColor = Tally(@, option, add)]

RECURSIVE CountOptions(_, _, _)
CountOptions(acc, options, totalQuantity) ==
    IF options = <<>> THEN acc
    ELSE CountOptions(CountOption(acc, Head(options)[1], totalQuantity),
                      Tail(options), totalQuantity)

\* The body of the loop over the variants, for one variant.
CountVariant(revision, acc, variant) ==
    LET totalQuantity == TotalQuantity(variant.inventory_levels)
        variantCost == OrElse(variant.cost, 0)
        price == IF revision = 2 THEN OrElse(variant.price, 0) ELSE 0
        variantCostValue == totalQuantity * variantCost
        variantSaleValue == totalQuantity * price
        productType == TextOrElse(variant.product.product_type,
                                  "Non défini")
        productTitle == TextOrElse(variant.product.title, "Inconnu")
        addType == [count |-> 1, stock |-> totalQuantity,
                    value |-> variantCostValue,
                    saleValue |-> variantSaleValue]
        addProduct == [stock |-> totalQuantity,
                       value |-> variantCostValue,
                       saleValue |-> variantSaleValue]
        totals ==
            [acc EXCEPT
                !.totalVariants = IF revision = 1 THEN @ + 1 ELSE @,
                !.totalStock = @ + totalQuantity,
                !.totalStockValue = @ + variantCostValue,
                !.totalSaleValue = @ + variantSaleValue,
                !.byProductType = Tally(@, productType, addType)]
        grouped == CountOptions(totals, OptionsOf(variant), totalQuantity)
    IN  [grouped EXCEPT
            !.productStats = Tally(@, productTitle, addProduct)]

RECURSIVE CountVariants(_, _, _)
CountVariants(revision, acc, variants) ==
    IF variants = <<>> THEN acc
    ELSE CountVariants(revision,
                       CountVariant(revision, acc, Head(variants)),
                       Tail(variants))

\* The stats object before the loop.
EmptyStats ==
    [totalVariants |-> 0, totalStock |-> 0, totalStockValue |-> 0,
     totalSaleValue |-> 0, byProductType |-> <<>>, byColor |-> <<>>,
     bySize |-> <<>>, productStats |-> <<>>]

\* entries.sort((a, b) => b.stock - a.stock): decreasing stock, entries of
\* equal stock in their former order.
SortByStock(entries) ==
    LET place(i) ==
            Cardinality({ j \in DOMAIN entries :
                \/ entries[j].stock > entries[i].stock
                \/ entries[j].stock = entries[i].stock /\ j < i }) + 1
    IN  [k \in DOMAIN entries |->
            entries[CHOOSE i \in DOMAIN entries : place(i) = k]]

\* entries.slice(0, n)
Slice(entries, n) ==
    SubSeq(entries, 1, IF Len(entries) < n THEN Len(entries) ELSE n)

\* Entries without the fields the first definition does not know.
WithoutSaleValue(entries) ==
    [i \in DOMAIN entries |->
        [f \in DOMAIN entries[i] \ {"saleValue"} |-> entries[i][f]]]

\* The JSON body of a successful response, built from the counts of the
\* loop: groups sorted by stock, colors and products cut to their limits.
StatsBody(revision, counted) ==
    LET topProducts == Slice(SortByStock(counted.productStats), TopLimit)
        byColor == Slice(SortByStock(counted.byColor), ColorLimit)
        bySize == SortByStock(counted.bySize)
        byProductType == SortByStock(counted.byProductType)
    IN  IF revision = 1
        THEN [totalVariants |-> counted.totalVariants,
              totalStock |-> counted.totalStock,
              totalStockValue |-> counted.totalStockValue,
              byProductType |-> WithoutSaleValue(byProductType),
              byColor |-> byColor,
              bySize |-> bySize,
              topProducts |-> WithoutSaleValue(topProducts)]
        ELSE [totalStock |-> counted.totalStock,
              totalStockValue |-> counted.totalStockValue,
              totalSaleValue |-> counted.totalSaleValue,
              potentialProfit |->
                  counted.totalSaleValue - counted.totalStockValue,
              byProductType |-> byProductType,
              byColor |-> byColor,
              bySize |-> bySize,
              topProducts |-> topProducts]

\* The inventory stats database and build before any request.
NewStats(revision, variants) ==
    [revision |-> revision, variants |-> variants, locationId |-> Null,
     rows |-> <<>>, counted |-> EmptyStats, response |-> Null]

\* GET inventory stats: the query fails with status 500, or its rows are
\* counted and the stats returned.
StatsAnswer(st, locationId, queryOk) ==
    LET rows == JoinedRows(st.variants, locationId)
        counted == CountVariants(st.revision, EmptyStats, rows)
    IN  IF queryOk
        THEN [st EXCEPT
                 !.locationId = locationId,
                 !.rows = rows,
                 !.counted = counted,
                 !.response =
                     Some([status |-> 200,
                           body |-> StatsBody(st.revision, counted)])]
        ELSE [st EXCEPT
                 !.locationId = locationId,
                 !.rows = <<>>,
                 !.counted = EmptyStats,
                 !.response =
                     Some([status |-> 500,
                           body |-> [error |-> "variantsError"]])]

StatsGet(locationId, queryOk) ==
    /\ stats # Null
    /\ stats' = StatsAnswer(stats, locationId, queryOk)
    /\ UNCHANGED <<orders, items, cost, mfConfigured, reqs, sync, rules, metafields, http>>

LocationIds == {Null} \cup { Some(l) : l \in StatsLocations }

\* Stored variants for the totals: cost and price set or not, stock in two
\* locations, a level without quantity, or no level at all.
StockLists ==
    { <<>>,
      <<Level(Some(2), "l1"), Level(Some(3), "l2")>>,
      <<Level(Null, "l2")>> }

TotalsVariants ==
    { VariantRow(Some(<<"M">>), Some(<<"R", "o", "u", "g", "e">>), Null,
                 variantCost, price, Some("Tee"), Null, levels) :
        variantCost \in {Null, Some(750)},
        price \in {Null, Some(2000)},
        levels \in StockLists }

TotalsCatalogues ==
    UNION { [1..n -> TotalsVariants] : n \in 0..MaxVariants }

InitStats ==
    /\ orders = [o \in Orders |-> NewOrder(o, BalanceOf[o])]
    /\ items = <<>>
    /\ cost = [v \in Variants |-> Null]
    /\ mfConfigured = FALSE
    /\ reqs = <<>>
    /\ metafields = Null
    /\ http = Null
    /\ sync = NoSync
    /\ rules = Null
    /\ \E revision \in Revisions, variants \in TotalsCatalogues :
          stats = NewStats(revision, variants)

NextStats ==
    \E locationId \in LocationIds, queryOk \in BOOLEAN :
        StatsGet(locationId, queryOk)

SpecStats == InitStats /\ [][NextStats]_vars

\* Quantity of a row: the quantities of its levels, an unset one as 0.
RECURSIVE QuantityOf(_)
QuantityOf(levels) ==
    IF levels = <<>> THEN 0
    ELSE LET n == Len(levels)
             q == levels[n].quantity
         IN  (IF q = Null THEN 0 ELSE q[1])
             + QuantityOf(SubSeq(levels, 1, n - 1))

Amount(field) == IF field = Null THEN 0 ELSE field[1]

\* Sum over the rows of quantity times the cost, or the price, of the row.
RECURSIVE WorthOf(_, _)
WorthOf(rows, field) ==
    IF rows = <<>> THEN 0
    ELSE LET n == Len(rows)
         IN  QuantityOf(rows[n].inventory_levels) * Amount(rows[n][field])
             + WorthOf(SubSeq(rows, 1, n - 1), field)

RECURSIVE StockOf(_)
StockOf(rows) ==
    IF rows = <<>> THEN 0
    ELSE LET n == Len(rows)
         IN  QuantityOf(rows[n].inventory_levels)
             + StockOf(SubSeq(rows, 1, n - 1))

\* C19: a successful inventory stats response reports the number of joined
\* rows as the variant count, the sum of their level quantities as the
\* stock, the sum of quantity times cost as the cost value, the sum of
\* quantity times price as the sale value, and sale value minus cost value
\* as the profit.
C19_ReportsFiveFigures ==
    (stats # Null /\ stats.response # Null
        /\ stats.response[1].status = 200)
    => LET body == stats.response[1].body
           rows == stats.rows
       IN  /\ {"totalVariants", "totalStock", "totalStockValue",
               "totalSaleValue", "potentialProfit"} \subseteq DOMAIN body
           /\ body.totalVariants = Len(rows)
           /\ body.totalStock = StockOf(rows)
           /\ body.totalStockValue = WorthOf(rows, "cost")
           /\ body.totalSaleValue = WorthOf(rows, "price")
           /\ body.potentialProfit
                  = WorthOf(rows, "price") - WorthOf(rows, "cost")

\* Option values of the stored variants, as the catalogue spells them.
FrenchNavy == <<"F", "r", "e", "n", "c", "h", " ", "N", "a", "v", "y">>

Rouge == <<"R", "o", "u", "g", "e">>

\* option1, option2, option3 of a variant: unset, empty, sizes in either
\* case, a number, colors, and one value held twice.
OptionTriples ==
    { <<Some(<<"M">>), Null, Null>>,
      <<Some(<<"m">>), Some(Rouge), Null>>,
      <<Some(<<"3", "X", "L">>), Some(FrenchNavy), Null>>,
      <<Null, Some(<<"4", "2">>), Some(Rouge)>>,
      <<Some(Rouge), Some(<<>>), Some(<<"x", "l">>)>>,
      <<Some(FrenchNavy), Some(<<"m">>), Some(<<"4", "2">>)>>,
      <<Some(Rouge), Some(Rouge), Null>>,
      <<Some(<<>>), Null, Null>> }

\* The k-th stored variant holds 2k + 1 units in l1 and k units in l2.
GroupVariant(k, triple) ==
    VariantRow(triple[1], triple[2], triple[3], Some(750), Some(2000),
               Some("Tee"), Some("T-shirt"),
               <<Level(Some(2 * k + 1), "l1"), Level(Some(k), "l2")>>)

GroupCatalogues ==
    UNION { { [k \in 1..n |-> GroupVariant(k, triples[k])] :
                triples \in [1..n -> OptionTriples] } : n \in 0..MaxVariants }

\* A catalogue of six variants that carries one color more than byColor
\* keeps: colors "c-a" to "c-p", three to a variant.
PaletteColor(n) == <<"c", "-", LowerCase[n]>>

PaletteOption(n) == IF n <= ColorLimit + 1 THEN Some(PaletteColor(n)) ELSE Null

Palette ==
    [k \in 1..6 |->
        GroupVariant(k, <<PaletteOption(3 * k - 2), PaletteOption(3 * k - 1),
                          PaletteOption(3 * k)>>)]

InitGroups ==
    /\ orders = [o \in Orders |-> NewOrder(o, BalanceOf[o])]
    /\ items = <<>>
    /\ cost = [v \in Variants |-> Null]
    /\ mfConfigured = FALSE
    /\ reqs = <<>>
    /\ metafields = Null
    /\ http = Null
    /\ sync = NoSync
    /\ rules = Null
    /\ \E revision \in Revisions, variants \in GroupCatalogues \cup {Palette} :
          stats = NewStats(revision, variants)

NextGroups ==
    \E locationId \in LocationIds, queryOk \in BOOLEAN :
        StatsGet(locationId, queryOk)

SpecGroups == InitGroups /\ [][NextGroups]_vars

\* The option values of the rows that are set and not empty, each named by
\* its row and its slot.
SlotValue(rows, at) ==
    <<rows[at[1]].option1, rows[at[1]].option2, rows[at[1]].option3>>[at[2]]

OptionValuesOf(rows) ==
    { at \in (DOMAIN rows) \X (1..3) :
        SlotValue(rows, at) # Null /\ SlotValue(rows, at)[1] # <<>> }

\* The group a value belongs to: the sizes among the values in use are
\* listed with their keys, every other value is a color under itself.
GroupOf(value) ==
    CASE value = <<"M">> -> <<"bySize", <<"M">>>>
      [] value = <<"m">> -> <<"bySize", <<"M">>>>
      [] value = <<"x", "l">> -> <<"bySize", <<"X", "L">>>>
      [] value = <<"3", "X", "L">> -> <<"bySize", <<"3", "X", "L">>>>
      [] value = <<"4", "2">> -> <<"bySize", <<"4", "2">>>>
      [] OTHER -> <<"byColor", value>>

\* The option values of the rows that belong to a key of a group.
MembersOf(rows, group, key) ==
    { at \in OptionValuesOf(rows) :
        GroupOf(SlotValue(rows, at)[1]) = <<group, key>> }

RECURSIVE StockOver(_, _)
StockOver(rows, members) ==
    IF members = {} THEN 0
    ELSE LET at == CHOOSE m \in members : TRUE
         IN  QuantityOf(rows[at[1]].inventory_levels)
             + StockOver(rows, members \ {at})

\* The entries of a group hold one entry for every key with members, and
\* each entry counts its members and sums their variants' quantities.
CountsMembers(rows, entries, group) ==
    /\ \A i, j \in DOMAIN entries :
          entries[i].key = entries[j].key => i = j
    /\ \A i \in DOMAIN entries :
          LET members == MembersOf(rows, group, entries[i].key)
          IN  /\ members # {}
              /\ entries[i].count = Cardinality(members)
              /\ entries[i].stock = StockOver(rows, members)
    /\ \A at \in OptionValuesOf(rows) :
          LET belongs == GroupOf(SlotValue(rows, at)[1])
          IN  belongs[1] = group => HasKey(entries, belongs[2])

SameEntries(a, b) ==
    /\ Len(a) = Len(b)
    /\ \A i \in DOMAIN a : \E j \in DOMAIN b : a[i] = b[j]

\* C20: in a successful inventory stats response every option value that is
\* set and not empty is counted in exactly one group, bySize under its
\* uppercased value when it is a size in either case ("m" and "M" under
\* "M", "3XL", "42"), byColor under its own value otherwise ("French Navy",
\* "Rouge"), and each count adds the variant's total quantity to the stock
\* of the group; the response holds every size group and the color groups
\* of largest stock up to the limit of byColor.
C20_OptionsCountedOnce ==
    (stats # Null /\ stats.response # Null
        /\ stats.response[1].status = 200)
    => LET body == stats.response[1].body
           rows == stats.rows
       IN  /\ CountsMembers(rows, stats.counted.bySize, "bySize")
           /\ CountsMembers(rows, stats.counted.byColor, "byColor")
           /\ SameEntries(body.bySize, stats.counted.bySize)
           /\ Len(body.byColor)
                  = IF Len(stats.counted.byColor) < ColorLimit
                    THEN Len(stats.counted.byColor) ELSE ColorLimit
           /\ \A i \in DOMAIN body.byColor :
                 /\ \E j \in DOMAIN stats.counted.byColor :
                       body.byColor[i] = stats.counted.byColor[j]
                 /\ \A j \in DOMAIN stats.counted.byColor :
                       stats.counted.byColor[j].stock > body.byColor[i].stock
                       => \E l \in DOMAIN body.byColor :
                             body.byColor[l] = stats.counted.byColor[j]

\* Two variants were counted, one of size "M" and one of size "m" and
\* color "French Navy": the response groups both under size "M" and holds
\* "42" as a size and "French Navy" as a color.
C20_Witness ==
    /\ stats # Null
    /\ stats.response # Null
    /\ stats.response[1].status = 200
    /\ Len(stats.rows) = 2
    /\ stats.rows[1].option1 = Some(<<"M">>)
    /\ stats.rows[2].option2 = Some(<<"m">>)
    /\ \E i \in DOMAIN stats.response[1].body.bySize :
          /\ stats.response[1].body.bySize[i].key = <<"M">>
          /\ stats.response[1].body.bySize[i].count = 2
          /\ stats.response[1].body.bySize[i].stock
                 = TotalQuantity(stats.rows[1].inventory_levels)
                   + TotalQuantity(stats.rows[2].inventory_levels)
    /\ HasKey(stats.response[1].body.bySize, <<"4", "2">>)
    /\ HasKey(stats.response[1].body.byColor, FrenchNavy)
    /\ ~HasKey(stats.response[1].body.byColor, <<"m">>)

\* ---------------------------------------------------------------------
\* fetchVariantMetafields
\* ---------------------------------------------------------------------

\* Largest number of metafield edges of one variant node.
MaxEdges == 2

\* Configurations of a shop: display names set or empty, namespaces and
\* keys spelled in either case.
ConfigLists ==
    { <<>>,
      <<MetafieldConfig(<<"c">>, <<"k">>, <<"A">>)>>,
      <<MetafieldConfig(<<"C">>, <<"K">>, <<"A">>),
        MetafieldConfig(<<"c">>, <<"m">>, <<"B">>)>>,
      <<MetafieldConfig(<<"c">>, <<"k">>, <<>>),
        MetafieldConfig(<<"c">>, <<"m">>, <<"B">>)>> }

\* Metafields a variant carries upstream: configured keys in either case,
\* a configured key without value, a key that is not configured.
UpstreamMetafields ==
    { Metafield(<<"c">>, <<"k">>, <<"r", "e", "d">>),
      Metafield(<<"C">>, <<"k">>, <<"b", "l", "u">>),
      Metafield(<<"c">>, <<"m">>, <<>>),
      Metafield(<<"c">>, <<"m">>, <<"x">>),
      Metafield(<<"u">>, <<"k">>, <<"v">>) }

\* Edge lists in which no two metafields have the same key up to case.
EdgeLists ==
    { edges \in UNION { [1..n -> UpstreamMetafields] : n \in 0..MaxEdges } :
        \A i, j \in DOMAIN edges :
            toLowerCase(FullKey(edges[i].namespace, edges[i].key))
                = toLowerCase(FullKey(edges[j].namespace, edges[j].key))
            => i = j }

\* The nodes of an answer for the variants "1" and "2": the first with any
\* edge list, the second unknown upstream, without metafields, or with one.
NodeLists ==
    { <<VariantNode(<<"1">>, edges), second>> :
        edges \in EdgeLists,
        second \in { Null, VariantNode(<<"2">>, <<>>),
                     VariantNode(<<"2">>,
                         <<Metafield(<<"c">>, <<"m">>, <<"x">>)>>) } }

Answers ==
    { Answer(TRUE, FALSE, TRUE, FALSE, nodes) : nodes \in NodeLists }
    \cup FailedAnswers

\* One call of fetchVariantMetafields.
MetafieldsCall(metafieldConfigs, answer) ==
    /\ metafields = Null
    /\ metafields' = [metafieldConfigs |-> metafieldConfigs,
                      answer |-> answer,
                      result |-> fetchVariantMetafields(metafieldConfigs,
                                                        answer)]
    /\ UNCHANGED <<orders, items, cost, mfConfigured, reqs, sync, rules,
                   stats, http>>

NextMetafields ==
    \E metafieldConfigs \in ConfigLists, answer \in Answers :
        MetafieldsCall(metafieldConfigs, answer)

SpecMetafields == Init /\ [][NextMetafields]_vars

\* Two strings are equal up to the case of their letters.
EqualIgnoringCase(a, b) ==
    /\ Len(a) = Len(b)
    /\ \A i \in DOMAIN a :
          \/ a[i] = b[i]
          \/ \E k \in DOMAIN LowerCase :
                {a[i], b[i]} = {LowerCase[k], UpperCase[k]}

\* The key and value pairs of a result entry.
PairsOf(entry) == { <<name, entry[name]>> : name \in DOMAIN entry }

\* The metafields of a node that have a value and a configuration, each
\* with its configuration.
ConfiguredOf(node, metafieldConfigs) ==
    { pair \in { node.edges[e] : e \in DOMAIN node.edges }
               \X { metafieldConfigs[c] : c \in DOMAIN metafieldConfigs } :
        /\ pair[1].value # <<>>
        /\ EqualIgnoringCase(FullKey(pair[1].namespace, pair[1].key),
                             FullKey(pair[2].namespace, pair[2].key)) }

\* The call answered with nodes.
Fetched ==
    /\ metafields # Null
    /\ metafields.answer.shopFound
    /\ ~metafields.answer.throws
    /\ metafields.answer.ok
    /\ ~metafields.answer.errors

\* The nodes of the answer that carry an id.
ReturnedNodes ==
    { metafields.answer.nodes[n][1] :
        n \in { m \in DOMAIN metafields.answer.nodes :
                  metafields.answer.nodes[m] # Null } }

RecalcCosts == {0, 750, 1000}

\* Order o1 holds a row of v1 whose quantity and price were edited and a
\* row added without variant; order o2 holds a validated row of v2.
RecalcRows(quantity, price, first, second) ==
    [i \in 1..3 |->
        CASE i = 1 -> [TotalsRow(500) EXCEPT
                          !.quantity = quantity,
                          !.line_total = 500 * quantity,
                          !.is_validated = first,
                          !.validated_at = IF first THEN "stamp" ELSE "null"]
          [] i = 2 -> [TotalsRow(price) EXCEPT
                          !.variant_id = Null,
                          !.is_validated = second,
                          !.validated_at = IF second THEN "stamp" ELSE "null"]
          [] i = 3 -> [TotalsRow(500) EXCEPT
                          !.order_id = "o2",
                          !.variant_id = Some("v2"),
                          !.is_validated = TRUE,
                          !.validated_at = "stamp"]]

InitRecalc ==
    /\ \E quantity \in {1, 2}, price \in PriceInputs,
          first \in BOOLEAN, second \in BOOLEAN :
          items = RecalcRows(quantity, price, first, second)
    /\ orders = UpdateOrderTotals(
                    UpdateOrderTotals(
                        [o \in Orders |->
                            [NewOrder(o, BalanceOf[o])
                                EXCEPT !.status = AddItemsStatus]],
                        items, "o1", ShopOf["o1"]),
                    items, "o2", ShopOf["o2"])
    /\ \E c \in {Null, Some(750)} :
          cost = [v \in Variants |-> IF v = "v1" THEN c ELSE Some(1000)]
    /\ mfConfigured = FALSE
    /\ reqs = <<>>
    /\ metafields = Null
    /\ http = Null
    /\ rules = Null
    /\ stats = Null
    /\ sync = NoSync

RecalcRecalculatePrices ==
    \E o \in Orders : RecalculatePrices(o, ShopOf[o])

RecalcUpsertVariantCost ==
    \E v \in Variants, c \in RecalcCosts : UpsertVariantCost(v, c)

RecalcToggleValidation ==
    \E i \in DOMAIN items, b \in BOOLEAN :
        UpdateItem(items[i].order_id, ShopOf[items[i].order_id], i,
                   Some(b), Null, Null, Null)

NextRecalc ==
    \/ RecalcRecalculatePrices
    \/ RecalcUpsertVariantCost
    \/ RecalcToggleValidation

SpecRecalc == InitRecalc /\ [][NextRecalc]_vars

\* The stored cost of the variant a row names: 0 for a row without
\* variant and for a variant without cost.
StoredCost(variantRef) ==
    IF variantRef = Null THEN 0
    ELSE IF cost[variantRef[1]] = Null THEN 0 ELSE cost[variantRef[1]][1]

\* C22: a Recalculate prices request on an order leaves every row of the
\* order, validated or not, with unit_price equal to the stored cost of
\* its variant (0 without variant or without cost) and line_total equal to
\* that cost times its quantity, and leaves the order with subtotal,
\* total_ht and total_ttc computed from the new line totals.
C22_RecalculateReprices ==
    [][\A o \in Orders :
          (RecalculatePrices(o, ShopOf[o]) /\ ItemsOf(items, o) # {})
          => /\ DOMAIN items' = DOMAIN items
             /\ \A i \in ItemsOf(items, o) :
                   /\ items'[i].unit_price = StoredCost(items[i].variant_id)
                   /\ items'[i].line_total
                          = StoredCost(items[i].variant_id) * items[i].quantity
                   /\ items'[i].quantity = items[i].quantity
                   /\ items'[i].is_validated = items[i].is_validated
             /\ orders'[o].subtotal
                    = SumOver({ i \in ItemsOf(items, o) : items[i].is_validated },
                              [i \in DOMAIN items |->
                                  StoredCost(items[i].variant_id)
                                      * items[i].quantity])
             /\ orders'[o].total_ht
                    = orders'[o].subtotal + orders[o].balance_adjustment
             /\ 10 * orders'[o].total_ttc = 12 * orders'[o].total_ht]_vars

\* Order o1 was repriced at cost 7.50: its row of v1, of quantity 2 and
\* not validated, has price 7.50 and line total 15.00, its validated row
\* without variant has price 0, and the totals are those of the new lines.
C22_Witness ==
    /\ cost["v1"] = Some(750)
    /\ items[1].quantity = 2
    /\ ~items[1].is_validated
    /\ items[1].unit_price = 750
    /\ items[1].line_total = 1500
    /\ items[2].is_validated
    /\ items[2].unit_price = 0
    /\ items[2].line_total = 0
    /\ orders["o1"].subtotal = 0
    /\ orders["o1"].total_ht = -500
    /\ orders["o1"].total_ttc = -600

\* ---------------------------------------------------------------------
\* Specification SpecStamps: Update item requests with any of the four
\* fields, from the order page and from the print page, on one order
\* ---------------------------------------------------------------------

StampsOrder == "o1"

\* Bodies of Update item: is_validated and is_printed set, cleared or
\* absent, with or without a quantity, with or without a unit price.
StampsRequests ==
    { [is_validated |-> v, is_printed |-> p, quantity |-> edit[1],
       unit_price |-> edit[2]] :
        v \in Optional(BOOLEAN), p \in Optional(BOOLEAN),
        edit \in { <<Null, Null>>, <<Some(2), Null>>, <<Null, Some(500)>>,
                   <<Some(2), Some(500)>> } }

StampsAddItems ==
    /\ Cardinality(DOMAIN items) + 1 <= MaxRows
    /\ AddItems(StampsOrder, ShopOf[StampsOrder],
                <<[variant_id |-> Some("v1"), quantity |-> 1]>>, FALSE, TRUE)

StampsUpdateItem ==
    \E i \in DOMAIN items, r \in StampsRequests :
        UpdateItem(StampsOrder, ShopOf[StampsOrder], i, r.is_validated,
                   r.is_printed, r.quantity, r.unit_price)

NextStamps ==
    \/ StampsAddItems
    \/ StampsUpdateItem

SpecStamps == Init /\ [][NextStamps]_vars

\* C23: every row has validated_at set exactly when is_validated is true
\* and printed_at set exactly when is_printed is true, and an Update item
\* request that carries is_printed alone leaves is_validated, the quantity
\* and prices of the row and every order as they were.
C23_StampsFollowFlags ==
    /\ [](\A i \in DOMAIN items :
             /\ (items[i].validated_at # "null") <=> items[i].is_validated
             /\ (items[i].printed_at # "null") <=> items[i].is_printed)
    /\ [][\A i \in DOMAIN items, b \in BOOLEAN :
             UpdateItem(StampsOrder, ShopOf[StampsOrder], i, Null, Some(b),
                        Null, Null)
             => /\ items'[i].is_printed = b
                /\ items'[i].is_validated = items[i].is_validated
                /\ items'[i].validated_at = items[i].validated_at
                /\ items'[i].quantity = items[i].quantity
                /\ items'[i].unit_price = items[i].unit_price
                /\ items'[i].line_total = items[i].line_total
                /\ orders' = orders]_vars

\* A validated row of edited price was printed and a second row was
\* printed and then unprinted or never printed: the first carries both
\* stamps, the second none, and the subtotal is the first row's total.
C23_Witness ==
    /\ DOMAIN items = {1, 2}
    /\ items[1].is_validated /\ items[1].validated_at = "stamp"
    /\ items[1].is_printed /\ items[1].printed_at = "stamp"
    /\ items[1].line_total = 1000
    /\ ~items[2].is_validated /\ items[2].validated_at = "null"
    /\ ~items[2].is_printed /\ items[2].printed_at = "null"
    /\ items[2].line_total = 1000
    /\ orders[StampsOrder].subtotal = 1000

\* ---------------------------------------------------------------------
\* Specification SpecRequests: the requests the five routes receive, with
\* or without their identifiers, and the response each one gets
\* ---------------------------------------------------------------------

\* The response to a request, with the number of calls made to Shopify
\* while it was handled.
Reply(route, request, status, upstream) ==
    Some([route |-> route, request |-> request, status |-> status,
          upstream |-> upstream])

\* !shopId || !orderId || !items || !Array.isArray(items); orderId is the
\* segment of the path and is never missing.
PostMissing(body) ==
    body.shopId = Null \/ body.items.kind # "array"

\* faulty variant of PutMissing: the item id is not required
PutMissingShopOnly(body) ==
    body.shopId = Null

\* !shopId || !orderId for the two bulk actions, !shopId || !orderId ||
\* !itemId for an update
PutMissing(body) ==
    IF body.action \in {"recalculate_prices", "refresh_metafields"}
    THEN body.shopId = Null
    ELSE body.shopId = Null \/ body.itemId = Null

\* !shopId || !orderId || !itemId
DeleteMissing(query) ==
    query.shopId = Null \/ query.itemId = Null

\* !shopId, in the stats route and in the sync route
GetMissing(query) ==
    query.shopId = Null

\* POST: Add items
PostRoute(orderId, body, fetchOk, applied) ==
    IF PostMissing(body)
    THEN /\ http' = Reply("POST", body, 400, 0)
         /\ UNCHANGED <<orders, items, cost, mfConfigured, reqs, sync, rules,
                        stats, metafields>>
    ELSE /\ Cardinality(DOMAIN items) + RowCount(body.items.entries) <= MaxItems
         /\ items' = InsertRows(items,
                         ItemsToInsert(orderId, body.items.entries, cost,
                                       mfConfigured, fetchOk))
         /\ orders' = MarkInProgress(
                          UpdateOrderTotals(orders, items', orderId,
                                            body.shopId[1]),
                          orderId, applied)
         /\ http' = Reply("POST", body, 200, IF mfConfigured THEN 1 ELSE 0)
         /\ UNCHANGED <<cost, mfConfigured, reqs, sync, rules, stats,
                        metafields>>

\* PUT: the two bulk actions and Update item
PutRoute(orderId, body, answer) ==
    IF PutMissing(body)
    THEN /\ http' = Reply("PUT", body, 400, 0)
         /\ UNCHANGED <<orders, items, cost, mfConfigured, reqs, sync, rules,
                        stats, metafields>>
    ELSE /\ CASE body.action = "recalculate_prices" ->
                   /\ items' = RecalcResult(orders, items, cost, orderId,
                                            body.shopId[1]).items
                   /\ orders' = RecalcResult(orders, items, cost, orderId,
                                             body.shopId[1]).orders
                   /\ http' = Reply("PUT", body, 200, 0)
              [] body.action = "refresh_metafields" ->
                   /\ items' = RefreshItems(items, orderId,
                                            ShopConfigs(mfConfigured), answer)
                   /\ orders' = orders
                   /\ http' = Reply("PUT", body, 200,
                                    IF ItemsOf(items, orderId) # {}
                                       /\ mfConfigured /\ answer.shopFound
                                    THEN 1 ELSE 0)
              [] OTHER ->
                   IF body.itemId = Null \/ body.itemId[1] \notin DOMAIN items
                   THEN /\ items' = items
                        /\ orders' = orders
                        /\ http' = Reply("PUT", body, 500, 0)
                   ELSE /\ items' = [items EXCEPT ![body.itemId[1]] =
                                        UpdatedRow(@, body.is_validated, Null,
                                                   Null, Null)]
                        /\ orders' =
                              IF TouchesTotals(body.is_validated, Null, Null)
                              THEN UpdateOrderTotals(orders, items', orderId,
                                                     body.shopId[1])
                              ELSE orders
                        /\ http' = Reply("PUT", body, 200, 0)
         /\ UNCHANGED <<cost, mfConfigured, reqs, sync, rules, stats,
                        metafields>>

\* DELETE: Delete item
DeleteRoute(orderId, query) ==
    IF DeleteMissing(query)
    THEN /\ http' = Reply("DELETE", query, 400, 0)
         /\ UNCHANGED <<orders, items, cost, mfConfigured, reqs, sync, rules,
                        stats, metafields>>
    ELSE /\ items' = DeleteRow(items, query.itemId[1])
         /\ orders' = UpdateOrderTotals(orders, items', orderId,
                                        query.shopId[1])
         /\ http' = Reply("DELETE", query, 200, 0)
         /\ UNCHANGED <<cost, mfConfigured, reqs, sync, rules, stats,
                        metafields>>

\* GET inventory stats
StatsRoute(query, queryOk) ==
    IF GetMissing(query)
    THEN /\ http' = Reply("GET stats", query, 400, 0)
         /\ UNCHANGED <<orders, items, cost, mfConfigured, reqs, sync, rules,
                        stats, metafields>>
    ELSE /\ stats' = StatsAnswer(stats, query.locationId, queryOk)
         /\ http' = Reply("GET stats", query, stats'.response[1].status, 0)
         /\ UNCHANGED <<orders, items, cost, mfConfigured, reqs, sync, rules,
                        metafields>>

\* GET sync: the stream is returned and its run starts
SyncRoute(query) ==
    IF GetMissing(query)
    THEN /\ http' = Reply("GET sync", query, 400, 0)
         /\ UNCHANGED <<orders, items, cost, mfConfigured, reqs, sync, rules,
                        stats, metafields>>
    ELSE /\ sync' = NewSync(Products, Variants, 1)
         /\ http' = Reply("GET sync", query, 200, 0)
         /\ UNCHANGED <<orders, items, cost, mfConfigured, reqs, rules, stats,
                        metafields>>

\* The order the requests name, and the shop id they carry or lack.
RequestsOrder == "o1"
ShopIds == Optional({ShopOf[RequestsOrder]})

\* Bodies of Add items: the items field absent, a text, or an array.
PostBodies ==
    [shopId : ShopIds,
     items : {[kind |-> "undefined", entries |-> <<>>],
              [kind |-> "text", entries |-> <<>>],
              [kind |-> "array",
               entries |-> <<[variant_id |-> Some("v1"), quantity |-> 1]>>]}]

PutBodies ==
    [shopId : ShopIds, itemId : Optional({1}),
     action : {"recalculate_prices", "refresh_metafields", "undefined"},
     is_validated : {Null, Some(TRUE)}]

DeleteQueries == [shopId : ShopIds, itemId : Optional({1})]

GetQueries == [shopId : ShopIds, locationId : {Null}]

\* Order o1 holds a validated row of v1 with fetched metafields, order o2
\* a row of v2.
RequestsRows ==
    [i \in 1..2 |->
        IF i = 1
        THEN [TotalsRow(500) EXCEPT
                 !.is_validated = TRUE, !.validated_at = "stamp",
                 !.metafields = MetafieldsOf(Some("v1"), TRUE, TRUE)]
        ELSE [TotalsRow(500) EXCEPT
                 !.order_id = "o2", !.variant_id = Some("v2")]]

InitRequests ==
    /\ items = RequestsRows
    /\ orders = UpdateOrderTotals(
                    UpdateOrderTotals(
                        [o \in Orders |->
                            [NewOrder(o, BalanceOf[o])
                                EXCEPT !.status = AddItemsStatus]],
                        items, "o1", ShopOf["o1"]),
                    items, "o2", ShopOf["o2"])
    /\ cost = [v \in Variants |-> Some(750)]
    /\ mfConfigured \in BOOLEAN
    /\ reqs = <<>>
    /\ metafields = Null
    /\ http = Null
    /\ rules = Null
    /\ stats = NewStats(2, <<>>)
    /\ sync = NoSync

RequestsPost ==
    \E body \in PostBodies : PostRoute(RequestsOrder, body, TRUE, TRUE)

RequestsPut ==
    \E body \in PutBodies, fetchOk \in BOOLEAN :
        PutRoute(RequestsOrder, body,
                 IF fetchOk THEN ValueAnswer(<<"b", "l", "u", "e">>)
                 ELSE Answer(FALSE, FALSE, TRUE, FALSE, <<>>))

RequestsDelete ==
    \E query \in DeleteQueries : DeleteRoute(RequestsOrder, query)

RequestsStats ==
    \E query \in GetQueries, queryOk \in BOOLEAN : StatsRoute(query, queryOk)

RequestsSync ==
    \E query \in GetQueries : SyncRoute(query)

NextRequests ==
    \/ RequestsPost
    \/ RequestsPut
    \/ RequestsDelete
    \/ RequestsStats
    \/ RequestsSync

SpecRequests == InitRequests /\ [][NextRequests]_vars

\* The request answered lacks an identifier its operation requires.
LacksIdentifier(reply) ==
    CASE reply.route = "POST" ->
           reply.request.shopId = Null \/ reply.request.items.kind # "array"
      [] reply.route = "PUT" /\ reply.request.action = "undefined" ->
           reply.request.shopId = Null \/ reply.request.itemId = Null
      [] reply.route = "PUT" /\ reply.request.action # "undefined" ->
           reply.request.shopId = Null
      [] reply.route = "DELETE" ->
           reply.request.shopId = Null \/ reply.request.itemId = Null
      [] OTHER -> reply.request.shopId = Null

\* C24: a request that lacks a required identifier (Add items without
\* shopId or without an items array, Update item or Delete item without
\* shopId or itemId, a bulk action, the stats or the sync without shopId)
\* is answered with status 400, makes no call to Shopify and changes no
\* stored order, item, cost, stats or sync run.
C24_MissingIdentifierIs400 ==
    [][(http' # Null /\ LacksIdentifier(http'[1]))
       => /\ http'[1].status = 400
          /\ http'[1].upstream = 0
          /\ UNCHANGED <<orders, items, cost, mfConfigured, sync, stats>>]_vars

\* An Update item request without item id was answered 400 after a row of
\* the order had been deleted by a complete request.
C24_Witness ==
    /\ http # Null
    /\ http[1].route = "PUT"
    /\ http[1].request.action = "undefined"
    /\ http[1].request.shopId # Null
    /\ http[1].request.itemId = Null
    /\ http[1].status = 400
    /\ 1 \notin DOMAIN items

\* ---------------------------------------------------------------------
\* Specification SpecPages: one order driven from the order page, whose
\* controls depend on the status, and from the print page
\* ---------------------------------------------------------------------

PagesOrder == "o1"

\* isCompleted: the validation checkboxes are disabled and the delete
\* column is not rendered
isCompleted(order) == order.status = "completed"

\* handleAddItems, offered with the buttons of a draft order
PagesAddItems ==
    /\ orders[PagesOrder].status = "draft"
    /\ Cardinality(DOMAIN items) + 1 <= MaxRows
    /\ \E applied \in BOOLEAN :
          AddItems(PagesOrder, ShopOf[PagesOrder],
                   <<[variant_id |-> Some("v1"), quantity |-> 1]>>,
                   FALSE, applied)

\* recalculatePrices, offered with the buttons of a draft order that has
\* items
PagesRecalculatePrices ==
    /\ orders[PagesOrder].status = "draft"
    /\ ItemsOf(items, PagesOrder) # {}
    /\ RecalculatePrices(PagesOrder, ShopOf[PagesOrder])

\* toggleValidation
PagesToggleValidation ==
    /\ ~isCompleted(orders[PagesOrder])
    /\ \E i \in ItemsOf(items, PagesOrder), b \in BOOLEAN :
          UpdateItem(PagesOrder, ShopOf[PagesOrder], i, Some(b), Null, Null,
                     Null)

\* deleteItem
PagesDeleteItem ==
    /\ ~isCompleted(orders[PagesOrder])
    /\ \E i \in ItemsOf(items, PagesOrder) :
          DeleteItem(PagesOrder, ShopOf[PagesOrder], i)

\* changeStatus
PagesChangeStatus ==
    \E s \in Statuses : ChangeStatus(PagesOrder, s)

\* togglePrinted, on the print page: the checkbox of every item, whatever
\* the status of the order
togglePrinted(itemId, printed) ==
    UpdateItem(PagesOrder, ShopOf[PagesOrder], itemId, Null, Some(printed),
               Null, Null)

PagesTogglePrinted ==
    \E i \in ItemsOf(items, PagesOrder), printed \in BOOLEAN :
        togglePrinted(i, printed)

PagesUpsertVariantCost ==
    UpsertVariantCost("v1", 750)

NextPages ==
    \/ PagesAddItems
    \/ PagesRecalculatePrices
    \/ PagesToggleValidation
    \/ PagesDeleteItem
    \/ PagesChangeStatus
    \/ PagesTogglePrinted
    \/ PagesUpsertVariantCost

SpecPages == Init /\ [][NextPages]_vars

\* C25: once an order is completed, no step changes its rows or its
\* subtotal, total_ht and total_ttc.
C25_CompletedIsFrozen ==
    [][\A o \in Orders :
          orders[o].status = "completed"
          => /\ ItemsOf(items', o) = ItemsOf(items, o)
             /\ \A i \in ItemsOf(items, o) : items'[i] = items[i]
             /\ orders'[o].subtotal = orders[o].subtotal
             /\ orders'[o].total_ht = orders[o].total_ht
             /\ orders'[o].total_ttc = orders[o].total_ttc]_vars

\* ---------------------------------------------------------------------
\* Specification SpecRefresh: Refresh metafields on orders of a shop that
\* has a metafield configuration, the fetch answered or failing
\* ---------------------------------------------------------------------

InitRefresh ==
    /\ orders = [o \in Orders |-> NewOrder(o, BalanceOf[o])]
    /\ items = <<>>
    /\ cost = [v \in Variants |-> Some(750)]
    /\ mfConfigured = TRUE
    /\ reqs = <<>>
    /\ metafields = Null
    /\ http = Null
    /\ rules = Null
    /\ stats = Null
    /\ sync = NoSync

\* Add items, whose own fetch of the metafields is answered or fails
RefreshAddItems ==
    \E o \in Orders, v \in Variants, fetchOk \in BOOLEAN :
        AddItems(o, ShopOf[o], <<[variant_id |-> Some(v), quantity |-> 1]>>,
                 fetchOk, TRUE)

\* Refresh metafields: the value upstream is now "blue", or the fetch fails
RefreshRefreshMetafields ==
    \E o \in Orders,
       answer \in FailedAnswers \cup {ValueAnswer(<<"b", "l", "u", "e">>)} :
        RefreshMetafields(o, ShopOf[o], answer)

NextRefresh ==
    \/ RefreshAddItems
    \/ RefreshRefreshMetafields

SpecRefresh == InitRefresh /\ [][NextRefresh]_vars

\* C26: a Refresh metafields request whose fetch fails (no shop row, a
\* thrown exception, a status that is not 2xx, GraphQL errors) leaves the
\* metafields of every row as they were stored.
C26_FailedFetchKeepsMetafields ==
    [][\A o \in Orders, answer \in FailedAnswers :
          RefreshMetafields(o, ShopOf[o], answer)
          => \A i \in DOMAIN items :
                items'[i].metafields = items[i].metafields]_vars

\* ---------------------------------------------------------------------
\* Specification SpecForeign: Update item and Delete item requests whose
\* item id may name a row of another order than the one of the path
\* ---------------------------------------------------------------------

\* Bodies of Update item: a validation toggle, a unit price, a quantity.
ForeignRequests ==
    {[is_validated |-> Some(b), is_printed |-> Null, quantity |-> Null,
      unit_price |-> Null] : b \in BOOLEAN}
    \cup {[is_validated |-> Null, is_printed |-> Null, quantity |-> Null,
           unit_price |-> Some(500)],
          [is_validated |-> Null, is_printed |-> Null, quantity |-> Some(2),
           unit_price |-> Null]}

\* Add items on an order that holds no row
ForeignAddItems ==
    \E o \in Orders :
        /\ ItemsOf(items, o) = {}
        /\ AddItems(o, ShopOf[o],
                    <<[variant_id |-> Some("v1"), quantity |-> 1]>>,
                    FALSE, TRUE)

ForeignUpdateItem ==
    \E o \in Orders, i \in DOMAIN items, r \in ForeignRequests :
        UpdateItem(o, ShopOf[o], i, r.is_validated, r.is_printed, r.quantity,
                   r.unit_price)

ForeignDeleteItem ==
    \E o \in Orders, i \in DOMAIN items : DeleteItem(o, ShopOf[o], i)

ForeignUpsertVariantCost ==
    UpsertVariantCost("v1", 750)

NextForeign ==
    \/ ForeignAddItems
    \/ ForeignUpdateItem
    \/ ForeignDeleteItem
    \/ ForeignUpsertVariantCost

SpecForeign == Init /\ [][NextForeign]_vars

\* C27: an Update item or Delete item request naming an order and a row
\* of another order leaves the item table as it was, and in every state
\* the subtotal of every order is the sum of the line totals of its
\* validated rows.
C27_OnlyItemsOfTheOrder ==
    /\ [][\A o \in Orders, i \in DOMAIN items :
             (/\ items[i].order_id # o
              /\ \/ DeleteItem(o, ShopOf[o], i)
                 \/ \E r \in ForeignRequests :
                       UpdateItem(o, ShopOf[o], i, r.is_validated,
                                  r.is_printed, r.quantity, r.unit_price))
             => items' = items]_vars
    /\ [](\A o \in Orders :
             orders[o].subtotal = ValidatedSubtotal(items, o))

\* C28: in every reachable state the order page offers at least one
\* status action for every order that holds items and is not completed
\* (SpecStatus).
C28_AlwaysAStatusAction ==
    \A o \in Orders :
        (orders[o].status # "completed" /\ ItemsOf(items, o) # {})
        => StatusActions(orders[o].status,
                         Cardinality(ItemsOf(items, o))) # {}

\* C29: in every run of the stream close is invoked at most once, exactly
\* once when the run has ended, and no frame is sent once the channel is
\* closed (SpecStream).
C29_ClosedExactlyOnce ==
    /\ [](sync.closes <= 1)
    /\ [](sync.phase = "ended" => sync.closes = 1)
    /\ [][sync.closed => /\ sync'.last = sync.last
                         /\ sync'.events = sync.events]_vars

\* ---------------------------------------------------------------------
\* Specification SpecStale: a run over a catalogue whose variants are
\* stored with the cost 10.00 of an earlier run, in batches of one item;
\* the platform may send variant v2 without inventory_item_id
\* ---------------------------------------------------------------------

InitStale ==
    /\ orders = [o \in Orders |-> NewOrder(o, BalanceOf[o])]
    /\ items = <<>>
    /\ cost = [v \in Variants |-> Some(1000)]
    /\ mfConfigured = FALSE
    /\ reqs = <<>>
    /\ metafields = Null
    /\ http = Null
    /\ rules = Null
    /\ stats = Null
    /\ \E noItemId \in SUBSET {"v2"} :
          sync = [StartSync(Products, Products, Variants, 1) EXCEPT
                     !.noItemId = noItemId,
                     !.inventoryItemIds =
                         CollectItemIds(Products, Products, noItemId)]

SpecStale == InitStale /\ [][NextCosts]_vars

\* The cost batch that requests the inventory item of a variant.
BatchOf(v) ==
    CHOOSE k \in 1..Len(sync.inventoryItemIds) :
        InventoryItemOf[v] \in BatchItems(sync, k)

\* C30: the upsert of a run writes every variant it upserts with the cost
\* the run fetched for its inventory item, and with 0 when the variant has
\* no inventory item id, when its batch did not succeed or when the
\* response did not return its item, whatever cost was stored before.
C30_UpsertWritesRunCost ==
    [][(sync.phase = "variants" /\ SyncUpsertVariants(TRUE))
       => \A v \in DOMAIN sync'.upserted :
             /\ cost'[v] # Null
             /\ v \in sync.noItemId => cost'[v] = Some(0)
             /\ (v \notin sync.noItemId
                 /\ sync.outcomes[BatchOf(v)] # "success")
                => cost'[v] = Some(0)
             /\ (v \notin sync.noItemId
                 /\ InventoryItemOf[v] \notin DOMAIN sync.costMap)
                => cost'[v] = Some(0)
             /\ (v \notin sync.noItemId
                 /\ InventoryItemOf[v] \in DOMAIN sync.costMap)
                => cost'[v] = Some(sync.costMap[InventoryItemOf[v]])]_vars

\* Both variants were stored with cost 10.00; the batch of v1 exhausted
\* its retries and v2 came without inventory item id: the upsert wrote
\* both with cost 0.
C30_Witness ==
    /\ sync.phase = "levels"
    /\ sync.noItemId = {"v2"}
    /\ sync.outcomes = <<"exhausted">>
    /\ DOMAIN sync.upserted = {"v1", "v2"}
    /\ cost = [v \in Variants |-> Some(0)]

====
